---------------------------- MODULE Spec2Model ----------------------------
(***************************************************************************)
(* A model of the ingestion and ranking engine of the collection-sort      *)
(* dashboard.                                                              *)
(*                                                                         *)
(*   - orders ingestion (app/routes/api.analytics.ingest.ts): the loader   *)
(*     that pages paid orders and their line items out of the external     *)
(*     catalog and upserts Product, Variant, OrderLine and IngestCursor;   *)
(*   - ranking (app/routes/api.sort.ts, app/routes/api.sort-all.ts) and    *)
(*     the apply protocol (app/server/sortCollection.ts).                  *)
(*                                                                         *)
(* Every await of the source is one step of the model, so that two         *)
(* requests interleave exactly where the event loop lets them.  A database *)
(* statement (one prisma call) and one external call are atomic.           *)
(*                                                                         *)
(* Optional values (null / undefined in the source) are <<>> for null and  *)
(* <<v>> for a value.  Dates (YYYY-MM-DD strings, compared as strings) are *)
(* day numbers.  Money amounts are integers of cents.                      *)
(***************************************************************************)
EXTENDS Integers, Sequences, FiniteSets, TLC

VARIABLES
  \* ---- Local Store (prisma) ----
  product,        \* set of Product rows
  variant,        \* set of Variant rows
  orderLine,      \* set of OrderLine rows
  ingestCursor,   \* set of IngestCursor rows
  \* ---- external catalog and environment of the ingestion runs ----
  remoteVer,      \* which revision of the remote order data is served
  clock,          \* Date.now(), as a day number
  starts,         \* number of ingestion requests received so far
  run,            \* run[r]: the local variables of ingestion request r
  firstCreate,    \* history: id -> the `create` row of the first upsert of id
  \* ---- the commerce platform as the ranking requests see it ----
  listing,        \* the shop's collections, each with its products in order
  sales,          \* the paid orders of the trailing window
  jobs,           \* jobs[k]: reorder job k has completed
  calls,          \* the mutations and job polls received, oldest first
  req,            \* the local variables of the ranking request
  \* ---- the other API operations (bundles, search, features, analytics) ----
  inventory,      \* the platform's inventory: variant -> available per location
  quantitiesApi,  \* how the platform takes the quantities(names:) query
  metafields,     \* the metafields saved on the platform
  inventorySnapshot, \* set of InventorySnapshot rows of the Local Store
  api,            \* the local variables of the API request
  xcalls          \* the calls the API request has made, oldest first

storeVars == <<product, variant, orderLine, ingestCursor>>
ingestVars == <<remoteVer, clock, starts, run, firstCreate>>
sortVars == <<listing, sales, jobs, calls, req>>
apiVars ==
  <<inventory, quantitiesApi, metafields, inventorySnapshot, api, xcalls>>

-----------------------------------------------------------------------------
(* Optional values *)

Null == <<>>
Some(v) == <<v>>
\* a ?? b
Coalesce(x, d) == IF x = <<>> THEN d ELSE x[1]

Min(a, b) == IF a <= b THEN a ELSE b
Max(a, b) == IF a >= b THEN a ELSE b

-----------------------------------------------------------------------------
(* Bounds of the model *)

\* ingestion requests received in one behaviour
MaxStarts == 2
\* the clock runs over 0..MaxDate
MaxDate == 3
\* the `days` parameter ranges over 0..MaxDays
MaxDays == 1
\* orders / line items the remote returns per page (it may return fewer
\* than the `first` asked for)
OrderPageSize == 1
LinePageSize == 1
\* products of the small collections
MaxProducts == 3
\* collections the remote returns per page
CollectionPageSize == 2
\* polls of one job that find it still running
MaxPending == 1
\* components of a bundle request
MaxComponents == 2

Runs == {1, 2}

-----------------------------------------------------------------------------
(* The external catalog: paid orders and their line items.                 *)
(* The remote serves one of two revisions of the same orders: between two  *)
(* calls a line item's quantity and amount and an order's currency may     *)
(* have been edited on the platform.  A line item's variant, when present, *)
(* belongs to the line item's product.                                     *)

\* Number(x) of a remote amount: a finite number of cents, or NaN/Infinity
Num(v) == [fin |-> TRUE, val |-> v]
NaN == [fin |-> FALSE, val |-> 0]

RemoteProduct ==
  [id |-> Some("P1"), title |-> Some("Tee"), vendor |-> Null,
   createdAt |-> Some(0)]

RemoteVariant(vid) ==
  [id |-> Some(vid),
   title |-> Some("S / Red"),
   sku |-> IF vid = "V1" THEN Some("SKU1") ELSE Null,
   selectedOptions |->
     IF vid = "V1"
       THEN <<[name |-> "Shoe Size", value |-> "S"],
              [name |-> "Colour", value |-> "Red"],
              [name |-> "size", value |-> "M"]>>
       ELSE <<[name |-> "Material", value |-> "Wool"],
              [name |-> "COLOR", value |-> "Navy"]>>,
   product |-> IF vid = "V1" THEN Some([id |-> Some("P1")]) ELSE Null]

RemoteLineItem(id, ver) ==
  CASE id = "L1" ->
         [id |-> "L1",
          quantity |-> IF ver = 0 THEN Some(1) ELSE Some(2),
          amount |-> IF ver = 0 THEN Some(Num(1000)) ELSE Some(NaN),
          product |-> Some(RemoteProduct),
          variant |-> Some(RemoteVariant("V1"))]
    [] id = "L2" ->
         [id |-> "L2",
          quantity |-> IF ver = 0 THEN Null ELSE Some(3),
          amount |-> IF ver = 0 THEN Null ELSE Some(Num(250)),
          product |-> Null,
          variant |-> Null]
    [] OTHER ->
         [id |-> "L3",
          quantity |-> IF ver = 0 THEN Some(-1) ELSE Some(0),
          amount |-> IF ver = 0 THEN Some(Num(-500)) ELSE Some(Num(0)),
          product |-> Some(RemoteProduct),
          variant |-> Some(RemoteVariant("V2"))]

LineIds == {"L1", "L2", "L3"}

\* every paid order of the shop, oldest first
RemoteOrders(ver) ==
  <<[id |-> "O1", createdAt |-> 1,
     currencyCode |-> IF ver = 0 THEN Some("USD") ELSE Some("EUR"),
     lines |-> <<"L1", "L2">>],
    [id |-> "O2", createdAt |-> 2,
     currencyCode |-> Null,
     lines |-> <<"L3">>]>>

\* A page of a connection: the items after position `after` (the opaque
\* cursor is the position of the last item returned), `size` at most.
PageOf(items, after, size) ==
  LET from == Coalesce(after, 0)
      to == Min(Len(items), from + size)
  IN [edges |-> SubSeq(items, from + 1, to),
      pageInfo |-> Some([hasNextPage |-> to < Len(items),
                         endCursor |-> IF to > from THEN Some(to) ELSE Null])]

\* lineItems(first: 100, after: $after) of an order
LineItemsPage(o, after, ver) ==
  PageOf([i \in 1..Len(o.lines) |-> RemoteLineItem(o.lines[i], ver)],
         after, LinePageSize)

\* the body of a response that carries a top-level error list and no data:
\* body?.data?.orders?.edges ?? [] is [], pageInfo is undefined
ErrorPage == [edges |-> <<>>, pageInfo |-> Null]

-----------------------------------------------------------------------------
(* Local Store: the prisma calls of the ingestion loader.  A table is the  *)
(* set of its rows; the primary key is enforced by the upsert's `where`.   *)

HasRow(tbl, id) == \E row \in tbl : row.id = id

\* p?.id
OptId(x) == IF x = Null THEN Null ELSE x[1].id

\* prisma.product.upsert({ where: { id: p.id }, update: ..., create: ... })
ProductUpsert(tbl, p) ==
  LET id == p.id[1] IN
  IF HasRow(tbl, id)
    THEN {IF row.id = id
            THEN [row EXCEPT !.title = Coalesce(p.title, ""),
                             !.vendor = p.vendor,
                             !.createdAt = IF p.createdAt # Null
                                             THEN p.createdAt ELSE @]
            ELSE row : row \in tbl}
    ELSE tbl \cup {[id |-> id,
                    title |-> Coalesce(p.title, ""),
                    vendor |-> p.vendor,
                    createdAt |-> p.createdAt]}

\* prisma.variant.upsert({ where: { id: v.id }, update: ..., create: ... })
VariantUpsert(tbl, v, p) ==
  LET \* /size/i.test(name) and /colou?r/i.test(name), on the option names the
      \* remote uses
      SizeNames == {"Shoe Size", "size", "Size"}

      ColorNames == {"Colour", "COLOR", "color"}

      \* selectedOptions?.find(o => re.test(o.name))?.value ?? null
      FindOption(opts, names) ==
        LET hits == {i \in 1..Len(opts) : opts[i].name \in names}
        IN IF hits = {} THEN Null
           ELSE Some(opts[CHOOSE i \in hits : \A j \in hits : i <= j].value)

      id == v.id[1]
      vp == OptId(v.product)
      pid == IF vp # Null THEN vp ELSE OptId(p)
      size == FindOption(v.selectedOptions, SizeNames)
      color == FindOption(v.selectedOptions, ColorNames)
  IN
  IF HasRow(tbl, id)
    THEN {IF row.id = id
            THEN [row EXCEPT !.productId = IF pid # Null THEN pid[1] ELSE @,
                             !.title = v.title,
                             !.sku = v.sku,
                             !.size = size,
                             !.color = color]
            ELSE row : row \in tbl}
    ELSE tbl \cup {[id |-> id,
                    productId |-> Coalesce(pid, ""),
                    title |-> v.title,
                    sku |-> v.sku,
                    size |-> size,
                    color |-> color]}

\* the `create` argument of prisma.orderLine.upsert
OrderLineCreate(o, li) ==
  LET amt == Coalesce(li.amount, Num(0)) IN
  [id |-> li.id,
   orderId |-> o.id,
   createdAt |-> o.createdAt,
   productId |-> OptId(li.product),
   variantId |-> OptId(li.variant),
   qty |-> Coalesce(li.quantity, 0),
   currency |-> Coalesce(o.currencyCode, "AUD"),
   netAmount |-> IF amt.fin THEN amt.val ELSE 0]

\* a faulty upsert whose update branch rewrites the row
OrderLineUpsertOverwrite(tbl, row) ==
  {r \in tbl : r.id # row.id} \cup {row}

\* a faulty insert that does not look the id up
OrderLineInsertUnkeyed(tbl, row) ==
  tbl \cup {row}

\* prisma.orderLine.upsert({ where: { id: li.id }, update: {}, create: row })
OrderLineUpsert(tbl, row) ==
  IF HasRow(tbl, row.id) THEN tbl ELSE tbl \cup {row}

\* prisma.ingestCursor.upsert({ where: { shop }, update: { sinceISO },
\*                              create: { shop, sinceISO } })
IngestCursorUpsert(tbl, shop, sinceISO) ==
  IF \E row \in tbl : row.shop = shop
    THEN {IF row.shop = shop THEN [row EXCEPT !.sinceISO = sinceISO] ELSE row
            : row \in tbl}
    ELSE tbl \cup {[shop |-> shop, sinceISO |-> sinceISO]}

-----------------------------------------------------------------------------
(* Orders ingestion: the loader of api.analytics.ingest.ts, one step per   *)
(* await.  run[r].pc is the await the request is suspended at.             *)

IdleRun ==
  [pc |-> "idle", shop |-> "", sinceISO |-> 0, after |-> Null,
   edges |-> <<>>, pageInfo |-> Null, ei |-> 0,
   liEdges |-> <<>>, lj |-> 0, liHasNext |-> FALSE, liAfter |-> Null,
   ordersProcessed |-> 0, linesProcessed |-> 0,
   \* history, not read by the loader:
   clientFailed |-> FALSE,   \* an external call of this run has failed
   seen |-> {},              \* ids of the line items the run has iterated
   visited |-> <<>>]         \* the same ids, in the order of the iterations

\* pageInfo?.hasNextPage and pageInfo?.endCursor ?? null
HasNextPage(pageInfo) == pageInfo # Null /\ pageInfo[1].hasNextPage
EndCursor(pageInfo) == IF pageInfo = Null THEN Null ELSE pageInfo[1].endCursor

\* the request has ended: what is left is the response (or the rejection)
Ended(l, how) ==
  [IdleRun EXCEPT !.pc = how, !.shop = l.shop, !.sinceISO = l.sinceISO,
                  !.ordersProcessed = l.ordersProcessed,
                  !.linesProcessed = l.linesProcessed,
                  !.clientFailed = l.clientFailed, !.seen = l.seen,
                  !.visited = l.visited]

RECURSIVE BeginOrder(_)

\* line 176: the orders page is exhausted
AfterEdges(l) ==
  IF ~HasNextPage(l.pageInfo)
    THEN [l EXCEPT !.pc = "cursor"]
    ELSE [l EXCEPT !.after = EndCursor(l.pageInfo), !.pc = "fetchOrders"]

\* line 68: the next iteration of `for (const edge of edges)`
NextOrder(l) ==
  IF l.ei < Len(l.edges)
    THEN BeginOrder([l EXCEPT !.ei = @ + 1])
    ELSE AfterEdges(l)

\* a loop over the line items that stops after the order's first page
NextLineFirstPageOnly(l) ==
  IF l.lj < Len(l.liEdges)
    THEN [l EXCEPT !.lj = @ + 1, !.pc = "product"]
    ELSE NextOrder(l)

\* lines 78 and 146: the next iteration of `for (const liEdge of liEdges)`,
\* or the end of the page of line items
NextLine(l) ==
  IF l.lj < Len(l.liEdges)
    THEN [l EXCEPT !.lj = @ + 1, !.pc = "product"]
    ELSE IF ~l.liHasNext
           THEN NextOrder(l)
           ELSE [l EXCEPT !.pc = "fetchLI"]

\* lines 69-75: ordersProcessed++ and the order's first page of line items
BeginOrder(l) ==
  LET o == l.edges[l.ei] IN
  NextLine([l EXCEPT !.ordersProcessed = @ + 1,
                     !.liEdges = o.lineItems.edges,
                     !.liHasNext = HasNextPage(o.lineItems.pageInfo),
                     !.liAfter = EndCursor(o.lineItems.pageInfo),
                     !.lj = 0])

\* lines 40-58: the request arrives
IngestStart(r) ==
  LET Shops == {"shopA"}

      \* const sinceISO =
      \*   since ?? new Date(Date.now() - days * DAY).toISOString()
      SinceISO(since, days, now) ==
        IF since # Null THEN since[1] ELSE now - days
  IN
  /\ run[r].pc \in {"idle", "done", "failed"}
  /\ starts < MaxStarts
  /\ \E shop \in Shops, since \in {Null} \cup {Some(d) : d \in 0..MaxDate},
        days \in 0..MaxDays :
       run' = [run EXCEPT ![r] =
                 [IdleRun EXCEPT !.pc = "fetchOrders",
                                 !.shop = shop,
                                 !.sinceISO = SinceISO(since, days, clock)]]
  /\ starts' = starts + 1
  /\ UNCHANGED <<storeVars, remoteVer, clock, firstCreate>>

\* lines 61-66: the orders page arrives, and the loops run to the next await
IngestOrdersPage(r) ==
  LET \* orders(first: 50, after: $after, query: "created_at:>=sinceISO AND ...")
      OrdersPage(sinceISO, after, ver) ==
        LET InWindow(o) == o.createdAt >= sinceISO
            nodes == SelectSeq(RemoteOrders(ver), InWindow)
            ords == [i \in 1..Len(nodes) |->
                      [id |-> nodes[i].id,
                       createdAt |-> nodes[i].createdAt,
                       currencyCode |-> nodes[i].currencyCode,
                       lineItems |-> LineItemsPage(nodes[i], Null, ver)]]
        IN PageOf(ords, after, OrderPageSize)

      l == run[r] IN
  /\ l.pc = "fetchOrders"
  /\ \/ \E page \in {OrdersPage(l.sinceISO, l.after, remoteVer)} :
          run' = [run EXCEPT ![r] =
                    NextOrder([l EXCEPT !.edges = page.edges,
                                        !.pageInfo = page.pageInfo,
                                        !.ei = 0])]
     \/ \* the result carries a top-level error list and no data
        run' = [run EXCEPT ![r] =
                  NextOrder([l EXCEPT !.edges = ErrorPage.edges,
                                      !.pageInfo = ErrorPage.pageInfo,
                                      !.ei = 0,
                                      !.clientFailed = TRUE])]
     \/ \* admin.graphql throws: the loader rejects
        run' = [run EXCEPT ![r] =
                  Ended([l EXCEPT !.clientFailed = TRUE], "failed")]
  /\ UNCHANGED <<storeVars, remoteVer, clock, starts, firstCreate>>

\* lines 79-98: linesProcessed++ and the product upsert
IngestProduct(r) ==
  LET l == run[r]
      li == l.liEdges[l.lj]
      p == li.product
  IN
  /\ l.pc = "product"
  /\ run' = [run EXCEPT ![r] = [l EXCEPT !.linesProcessed = @ + 1,
                                         !.seen = @ \cup {li.id},
                                         !.visited = Append(@, li.id),
                                         !.pc = "variant"]]
  /\ product' = IF OptId(p) # Null THEN ProductUpsert(product, p[1])
                ELSE product
  /\ UNCHANGED <<variant, orderLine, ingestCursor, remoteVer, clock, starts,
                 firstCreate>>

\* lines 100-127: the variant upsert
IngestVariant(r) ==
  LET l == run[r]
      li == l.liEdges[l.lj]
      v == li.variant
  IN
  /\ l.pc = "variant"
  /\ run' = [run EXCEPT ![r] = [l EXCEPT !.pc = "orderLine"]]
  /\ variant' = IF OptId(v) # Null THEN VariantUpsert(variant, v[1], li.product)
                ELSE variant
  /\ UNCHANGED <<product, orderLine, ingestCursor, remoteVer, clock, starts,
                 firstCreate>>

\* lines 129-146: the OrderLine upsert, then on to the next await
IngestOrderLine(r) ==
  LET l == run[r]
      li == l.liEdges[l.lj]
      row == OrderLineCreate(l.edges[l.ei], li)
  IN
  /\ l.pc = "orderLine"
  /\ orderLine' = OrderLineUpsert(orderLine, row)
  /\ firstCreate' = IF firstCreate[li.id] = Null
                      THEN [firstCreate EXCEPT ![li.id] = Some(row)]
                      ELSE firstCreate
  /\ run' = [run EXCEPT ![r] = NextLine(l)]
  /\ UNCHANGED <<product, variant, ingestCursor, remoteVer, clock, starts>>

\* lines 149-172: the next page of the order's line items arrives
IngestLineItemsPage(r) ==
  LET \* the order with the given id, for the OrderLineItems query
      RemoteOrder(oid, ver) ==
        LET os == RemoteOrders(ver)
        IN os[CHOOSE i \in 1..Len(os) : os[i].id = oid]

      l == run[r]
      o == l.edges[l.ei]
  IN
  /\ l.pc = "fetchLI"
  /\ \/ \E page \in {LineItemsPage(RemoteOrder(o.id, remoteVer), l.liAfter,
                                   remoteVer)} :
          run' = [run EXCEPT ![r] =
                    NextLine([l EXCEPT !.liEdges = page.edges,
                                       !.liHasNext = HasNextPage(page.pageInfo),
                                       !.liAfter = EndCursor(page.pageInfo),
                                       !.lj = 0])]
     \/ \* the result carries a top-level error list and no data
        run' = [run EXCEPT ![r] =
                  NextLine([l EXCEPT !.liEdges = ErrorPage.edges,
                                     !.liHasNext = FALSE,
                                     !.liAfter = Null,
                                     !.lj = 0,
                                     !.clientFailed = TRUE])]
     \/ \* admin.graphql throws: the loader rejects
        run' = [run EXCEPT ![r] =
                  Ended([l EXCEPT !.clientFailed = TRUE], "failed")]
  /\ UNCHANGED <<storeVars, remoteVer, clock, starts, firstCreate>>

\* lines 180-186: the cursor upsert and the { ok: true, ... } response
IngestCursorWrite(r) ==
  LET l == run[r] IN
  /\ l.pc = "cursor"
  /\ ingestCursor' = IngestCursorUpsert(ingestCursor, l.shop, l.sinceISO)
  /\ run' = [run EXCEPT ![r] = Ended(l, "done")]
  /\ UNCHANGED <<product, variant, orderLine, remoteVer, clock, starts,
                 firstCreate>>

\* the platform's data is edited between two calls
RemoteEdit ==
  /\ remoteVer = 0
  /\ remoteVer' = 1
  /\ UNCHANGED <<storeVars, clock, starts, run, firstCreate>>

\* a day passes
Tick ==
  /\ clock < MaxDate
  /\ clock' = clock + 1
  /\ UNCHANGED <<storeVars, remoteVer, starts, run, firstCreate>>

-----------------------------------------------------------------------------
(* Ranking: the pure part of api.sort.ts and api.sort-all.ts.              *)
(* A title is the sequence of its UTF-16 code units.                       *)

\* -1, 0 or 1 as the key sequence ka sorts before, with or after kb
CompareKeys(ka, kb) ==
  LET n == Min(Len(ka), Len(kb))
      diff == {i \in 1..n : ka[i] # kb[i]}
  IN IF diff # {}
       THEN LET i == CHOOSE d \in diff : \A e \in diff : d <= e
            IN IF ka[i] < kb[i] THEN -1 ELSE 1
       ELSE IF Len(ka) < Len(kb) THEN -1
       ELSE IF Len(ka) > Len(kb) THEN 1
       ELSE 0

\* a comparison by UTF-16 code units
CodeUnitCompare(a, b) == CompareKeys(a, b)

\* a.localeCompare(b)
localeCompare(a, b) ==
  LET \* the collation keys of String.prototype.localeCompare for ASCII letters:
      \* the letter first, whatever its case; on equal letters lower case first
      Letter(c) == IF c >= 97 THEN c - 97 ELSE c - 65

      IsUpper(c) == c < 97

      primary == CompareKeys([i \in 1..Len(a) |-> Letter(a[i])],
                             [i \in 1..Len(b) |-> Letter(b[i])])
  IN IF primary # 0 THEN primary
     ELSE CompareKeys([i \in 1..Len(a) |-> IF IsUpper(a[i]) THEN 1 ELSE 0],
                      [i \in 1..Len(b) |-> IF IsUpper(b[i]) THEN 1 ELSE 0])

\* a comparator that forgets the stock rule
compareNoStock(a, b) ==
  IF a.sold90 # b.sold90 THEN b.sold90 - a.sold90
  ELSE IF a.variantInStock # b.variantInStock
    THEN b.variantInStock - a.variantInStock
  ELSE localeCompare(a.title, b.title)

\* the comparator handed to Array.prototype.sort
compare(a, b) ==
  IF a.inStock # b.inStock THEN (IF a.inStock THEN -1 ELSE 1)
  ELSE IF a.sold90 # b.sold90 THEN b.sold90 - a.sold90
  ELSE IF a.variantInStock # b.variantInStock
    THEN b.variantInStock - a.variantInStock
  ELSE localeCompare(a.title, b.title)

\* an insertion that puts e before the elements it ties with
InsertBeforeTies(s, e) ==
  LET k == Cardinality({j \in 1..Len(s) : compare(s[j], e) < 0})
  IN SubSeq(s, 1, k) \o <<e>> \o SubSeq(s, k + 1, Len(s))

\* e inserted into the sorted s, after every element that does not sort
\* after it
Insert(s, e) ==
  LET \* the least k in lo..hi - 1 whose s[k] sorts after e, or hi when
      \* there is none, for a sorted s (a binary search)
      RECURSIVE Position(_, _)
      Position(lo, hi) ==
        IF lo = hi THEN lo
        ELSE LET mid == (lo + hi) \div 2
             IN IF compare(s[mid], e) <= 0 THEN Position(mid + 1, hi)
                ELSE Position(lo, mid)
      k == Position(1, Len(s) + 1)
  IN SubSeq(s, 1, k - 1) \o <<e>> \o SubSeq(s, k, Len(s))

\* Array.prototype.sort(compare): a stable sort
Sort(s) ==
  LET \* s[lo..hi] inserted into acc one by one, left to right (the
      \* recursion halves the range; the left half is evaluated before the
      \* right one starts)
      RECURSIVE InsertAll(_, _, _)
      InsertAll(acc, lo, hi) ==
        IF lo > hi THEN acc
        ELSE IF lo = hi THEN Insert(acc, s[lo])
        ELSE LET mid == (lo + hi) \div 2
                 left == InsertAll(acc, lo, mid)
             IN IF Len(left) >= 0 THEN InsertAll(left, mid + 1, hi)
                ELSE left
  IN InsertAll(<<>>, 1, Len(s))

\* the decorated product
Decorate(p, sales90) ==
  LET \* variants.edges.reduce((n, e) =>
      \*   n + (e.node.availableForSale ? 1 : 0), 0)
      variantInStock ==
        Cardinality({i \in 1..Len(p.variants) : p.variants[i]})
  IN
  [id |-> p.id, title |-> p.title,
   inStock |-> variantInStock > 0,
   variantInStock |-> variantInStock,
   sold90 |-> IF p.id \in DOMAIN sales90 THEN sales90[p.id] ELSE 0]

\* a ranking that follows the list stored for the collection: once a list is
\* stored the products stay in the order of the collection
DesiredByStoredRules(items, sales90) ==
  LET decorated == [i \in 1..Len(items) |-> Decorate(items[i], sales90)]
      sorted == IF metafields["sort_rules"] = Null THEN Sort(decorated)
                ELSE decorated
  IN [i \in 1..Len(sorted) |-> sorted[i].id]

\* items.map(decorate).sort(compare).map(x => x.id)
Desired(items, sales90) ==
  LET decorated == [i \in 1..Len(items) |-> Decorate(items[i], sales90)]
      sorted == Sort(decorated)
  IN [i \in 1..Len(sorted) |-> sorted[i].id]

-----------------------------------------------------------------------------
(* The commerce platform of the ranking requests *)

\* products(first: 250), lineItems(first: 250), the chunk of sortCollection,
\* DEFAULT_TOP_N, the default `limit`, the preview lengths
ProductsFirst == 250
LineItemsFirst == 250
ChunkSize == 250
DEFAULT_TOP_N == 500
DefaultLimit == 25
PreviewSort == 25
PreviewSortAll == 10

\* title "b", "B", "a", "a", "A"
Catalog ==
  <<[id |-> 1, title |-> <<98>>, variants |-> <<TRUE, TRUE>>],
    [id |-> 2, title |-> <<66>>, variants |-> <<TRUE, TRUE>>],
    [id |-> 3, title |-> <<97>>, variants |-> <<TRUE, FALSE>>],
    [id |-> 4, title |-> <<97>>, variants |-> <<TRUE>>],
    [id |-> 5, title |-> <<65>>, variants |-> <<FALSE>>]>>

Collection(id, items) == [id |-> id, title |-> "c", items |-> items]

\* the shops the ranking is checked on: one small collection
RankListings ==
  LET \* the collections of at most MaxProducts distinct products of the catalog
      SmallCollections ==
        LET picks == UNION {[1..n -> 1..Len(Catalog)] : n \in 0..MaxProducts}
            distinct == {f \in picks : \A i, j \in DOMAIN f : i # j => f[i] # f[j]}
        IN {[i \in DOMAIN f |-> Catalog[f[i]]] : f \in distinct}
  IN
  {<<Collection(1, items)>> : items \in SmallCollections}

\* the shops the apply protocol is checked on: collections of more than one
\* and more than two chunks, several collections, no collection
ApplyListings ==
  LET BigSizes == {ChunkSize + 1, 2 * ChunkSize + 1}

      \* a collection of n products, the last two of which have more variants in
      \* stock than the others
      BigCollection(n) ==
        [i \in 1..n |-> [id |-> 1000 + i, title |-> <<97>>,
                         variants |-> IF i > n - 2 THEN <<TRUE, TRUE>>
                                      ELSE <<TRUE>>]]

      \* a shop of three collections, the second one empty
      ThreeCollections ==
        <<Collection(1, <<Catalog[5], Catalog[1]>>),
          Collection(2, <<>>),
          Collection(3, <<Catalog[2], Catalog[1]>>)>>
  IN
  {<<Collection(1, BigCollection(n))>> : n \in BigSizes}
    \cup {ThreeCollections, <<>>,
          <<Collection(1, <<Catalog[3], Catalog[5], Catalog[4]>>)>>,
          \* a collection of two chunks followed by a small one
          <<Collection(1, BigCollection(ChunkSize + 1)),
            Collection(2, <<Catalog[2], Catalog[1]>>)>>}

SalesData ==
  LET \* the paid orders of the trailing window: a line item has a quantity and a
      \* product, either of which may be null
      Line(q, pid) == [quantity |-> q, product |-> pid]
  IN
  {<<[lines |-> <<Line(Some(2), Some(1)), Line(Some(2), Some(2)),
                  Line(Some(5), Some(5)), Line(Some(1), Null),
                  Line(Some(1), Some(3))>>],
     [lines |-> <<Line(Some(1), Some(3)), Line(Some(2), Some(4)),
                  Line(Some(4), Some(9)), Line(Null, Some(1))>>]>>,
   <<[lines |-> <<Line(Some(3), Some(2)), Line(Some(1), Some(4))>>]>>}

\* the sales the ranking of one collection is tried on: those above, and an
\* order of one more line item than a lineItems(first: 250) connection holds,
\* the last of a product of the catalog and the others of a product outside it
RankSales ==
  SalesData
    \cup {<<[lines |-> [k \in 1..(LineItemsFirst + 1) |->
                         [quantity |-> Some(1),
                          product |-> Some(IF k > LineItemsFirst THEN 1 ELSE 9)]]]>>}

-----------------------------------------------------------------------------
(* run-ranking (api.sort.ts), run-ranking-all (api.sort-all.ts) and the    *)
(* apply protocol (sortCollection.ts), one step per await                  *)

\* Array.prototype.slice(0, end) for an integer end
SliceTo(s, end) ==
  SubSeq(s, 1, IF end < 0 THEN Max(Len(s) + end, 0) ELSE Min(end, Len(s)))

\* String(idx) for idx >= 0: the decimal digits
RECURSIVE StringOf(_)
StringOf(n) == IF n < 10 THEN <<n>> ELSE Append(StringOf(n \div 10), n % 10)

\* the platform's reading of a newPosition
RECURSIVE ParseInt(_)
ParseInt(d) ==
  IF Len(d) = 1 THEN d[1]
  ELSE 10 * ParseInt(SubSeq(d, 1, Len(d) - 1)) + d[Len(d)]

\* a chunk that runs one move into the next chunk
ChunkOverlapping(moves, i) ==
  SubSeq(moves, i + 1, Min(i + ChunkSize + 1, Len(moves)))

\* moves.slice(i, i + 250)
Chunk(moves, i) == SubSeq(moves, i + 1, Min(i + ChunkSize, Len(moves)))

\* Number.isFinite(topN) ? Math.max(0, Math.min(desired.length, topN)) : 500
Cap(topN, desired) ==
  IF topN # Null THEN Max(0, Min(Len(desired), topN[1])) ELSE DEFAULT_TOP_N

\* Number.isFinite(body.topN) ? Number(body.topN) : 500
TopNAll(topN) == Coalesce(topN, DEFAULT_TOP_N)

\* counts[pid] = (counts[pid] || 0) + (li.quantity ?? 0), for the wanted pids:
\* what the loop over the line items leaves, an entry for every wanted
\* product met, the quantities of its line items added to it
CountLines(counts, lines, wanted) ==
  LET met == {lines[k].product[1] :
                k \in {j \in 1..Len(lines) :
                         lines[j].product # Null /\ lines[j].product[1] \in wanted}}
      \* the li.quantity ?? 0 of the line items lo..hi of the product x
      RECURSIVE Added(_, _, _)
      Added(lo, hi, x) ==
        IF lo > hi THEN 0
        ELSE IF lo = hi
          THEN IF lines[lo].product = Some(x)
                 THEN Coalesce(lines[lo].quantity, 0) ELSE 0
          ELSE Added(lo, (lo + hi) \div 2, x) + Added((lo + hi) \div 2 + 1, hi, x)
  IN [x \in DOMAIN counts \cup met |->
        (IF x \in DOMAIN counts THEN counts[x] ELSE 0) + Added(1, Len(lines), x)]

RECURSIVE CountEdges(_, _, _)
CountEdges(counts, edges, wanted) ==
  IF edges = <<>> THEN counts
  ELSE CountEdges(CountLines(counts, Head(edges).lines, wanted),
                  Tail(edges), wanted)

\* a dry-run flag that is never honoured
NeverDryRun(r) == FALSE

\* if (dryRun)
IsDryRun(r) == r.dryRun

\* a poll that takes every answer for completion
JobDoneAlways(k) == TRUE

\* a job whose status never comes back done
JobNeverDone(k) == FALSE

\* j?.data?.job?.done
JobDone(k) == jobs[k]

IdleReq ==
  [pc |-> "idle", route |-> "", collectionId |-> Null, topN |-> Null,
   dryRun |-> FALSE, limit |-> Null,
   target |-> <<>>, ci |-> 0, results |-> <<>>,
   items |-> <<>>, after |-> Null, counts |-> <<>>,
   desired |-> <<>>, cap |-> 0, toApply |-> <<>>,
   i |-> 0, jobId |-> Null, pending |-> 0,
   response |-> Null,
   \* history, not read by the handlers: the desired order and cap of every
   \* collection ranked so far
   ranked |-> <<>>]

\* the request parameters tried
TopNs == {Null, Some(-1), Some(0), Some(2), Some(2 * ChunkSize + 1)}

\* the collection being processed
CurrentId(q) ==
  IF q.route = "sort" THEN q.collectionId[1] ELSE q.target[q.ci].id

\* return json(resp)
Respond(q, resp) == [q EXCEPT !.pc = "done", !.response = Some(resp)]

\* api.sort-all.ts line 107: the next iteration of `for (const c of target)`,
\* or the response after the last one
NextCollection(q) ==
  IF q.ci < Len(q.target)
    THEN [q EXCEPT !.ci = @ + 1, !.pc = "products",
                   !.items = <<>>, !.after = Null, !.counts = <<>>,
                   !.desired = <<>>, !.cap = 0, !.toApply = <<>>,
                   !.i = 0, !.jobId = Null, !.pending = 0]
    ELSE Respond(q, [ok |-> TRUE, status |-> 200,
                     processed |-> Len(q.results), results |-> q.results])

\* results.push(entry), the throttle, and on to the next collection
Push(q, entry) == NextCollection([q EXCEPT !.results = Append(@, entry)])

\* sortCollection has returned
AfterApply(q) ==
  IF q.route = "sort"
    THEN Respond(q, [ok |-> TRUE, status |-> 200, moved |-> Len(q.toApply),
                     considered |-> Len(q.desired), appliedTopN |-> q.cap])
    ELSE Push(q, [id |-> CurrentId(q), kind |-> "moved",
                  moved |-> Len(q.toApply), considered |-> Len(q.desired)])

\* sortCollection.ts line 21: for (let i = 0; i < moves.length; i += 250)
ApplyLoop(q) ==
  IF q.i < Len(q.toApply) THEN [q EXCEPT !.pc = "reorder"] ELSE AfterApply(q)

\* a failure that escapes the loop over the collections
FailAbortsBatch(q) == Respond(q, [ok |-> FALSE, status |-> 500])

\* a failure of a chunk after which the loop goes on with the next chunk
FailSkipsChunk(q) ==
  IF q.pc \in {"reorder", "poll"}
    THEN ApplyLoop([q EXCEPT !.i = @ + ChunkSize, !.jobId = Null])
  ELSE IF q.route = "sort"
    THEN Respond(q, [ok |-> FALSE, status |-> 500])
  ELSE Push(q, [id |-> CurrentId(q), kind |-> "error"])

\* an await has thrown: the catch of api.sort.ts (line 219) answers 500, the
\* catch of api.sort-all.ts (line 142) records the collection and goes on
Fail(q) ==
  IF q.route = "sort"
    THEN Respond(q, [ok |-> FALSE, status |-> 500])
    ELSE Push(q, [id |-> CurrentId(q), kind |-> "error"])

\* the products of the collection are all fetched
AfterProducts(q) ==
  IF q.items = <<>>
    THEN IF q.route = "sortAll"
           THEN Push(q, [id |-> CurrentId(q), kind |-> "skipped"])
           ELSE [q EXCEPT !.pc = "rank"]
    ELSE [q EXCEPT !.pc = "sales", !.after = Null]

\* api.sort.ts lines 68-80: the request arrives
SortStart ==
  LET CollectionIds == {1, 2}
  IN
  /\ req.pc = "idle"
  /\ \E cid \in {Null} \cup {Some(c) : c \in CollectionIds},
        topN \in TopNs, dryRun \in BOOLEAN :
       req' = IF cid = Null
                THEN Respond([req EXCEPT !.route = "sort"],
                             [ok |-> FALSE, status |-> 400])
                ELSE [req EXCEPT !.route = "sort", !.collectionId = cid,
                                 !.topN = topN, !.dryRun = dryRun,
                                 !.pc = "products"]
  /\ UNCHANGED <<listing, sales, jobs, calls>>

\* api.sort-all.ts lines 96-103: the request arrives
SortAllStart ==
  LET Limits == {Null, Some(-1), Some(0), Some(1), Some(2)}
  IN
  /\ req.pc = "idle"
  /\ \E limit \in Limits, topN \in TopNs, dryRun \in BOOLEAN :
       req' = [req EXCEPT !.route = "sortAll", !.limit = limit,
                          !.topN = topN, !.dryRun = dryRun,
                          !.pc = "collections"]
  /\ UNCHANGED <<listing, sales, jobs, calls>>

\* fetchCollectionIds: a page of collections arrives; after the last one
\* target = all.slice(0, limit)
FetchCollections ==
  LET \* collections(first: 50, after) of the remote
      CollectionsPage(after) ==
        PageOf([i \in 1..Len(listing) |-> [id |-> listing[i].id,
                                           title |-> listing[i].title]],
               after, CollectionPageSize)
  IN
  /\ req.pc = "collections"
  /\ \/ \E page \in {CollectionsPage(req.after)} :
          LET all == req.target \o page.edges IN
          req' = IF HasNextPage(page.pageInfo)
                   THEN [req EXCEPT !.target = all,
                                    !.after = EndCursor(page.pageInfo)]
                   ELSE NextCollection(
                          [req EXCEPT
                             !.target = SliceTo(all, Coalesce(req.limit,
                                                              DefaultLimit)),
                             !.ci = 0])
     \/ \* admin.graphql throws outside the try: the action rejects
        req' = Respond(req, [ok |-> FALSE, status |-> 500])
  /\ UNCHANGED <<listing, sales, jobs, calls>>

\* fetchCollectionProducts / fetchProductsWithVariants: a page arrives
FetchProducts ==
  LET \* collection(id).products(first: 250, after) of the remote
      ProductsPage(id, after) ==
        LET hits == {i \in 1..Len(listing) : listing[i].id = id}
        IN IF hits = {} THEN ErrorPage
           ELSE PageOf(listing[CHOOSE i \in hits : TRUE].items, after, ProductsFirst)
  IN
  /\ req.pc = "products"
  /\ \/ \E page \in {ProductsPage(CurrentId(req), req.after)} :
          LET q == [req EXCEPT !.items = @ \o page.edges] IN
          req' = IF HasNextPage(page.pageInfo)
                   THEN [q EXCEPT !.after = EndCursor(page.pageInfo)]
                   ELSE AfterProducts(q)
     \/ req' = Fail(req)
  /\ UNCHANGED <<listing, sales, jobs, calls>>

\* fetchSalesCounts: a page of orders arrives
FetchSales ==
  LET \* orders(first: 50, after, query, sortKey) with lineItems(first: 250)
      SalesPage(after) ==
        PageOf([i \in 1..Len(sales) |->
                  [lines |-> SubSeq(sales[i].lines, 1,
                                    Min(Len(sales[i].lines), LineItemsFirst))]],
               after, OrderPageSize)
  IN
  /\ req.pc = "sales"
  /\ \/ \E page \in {SalesPage(req.after)} :
          LET wanted == {req.items[k].id : k \in 1..Len(req.items)}
              q == [req EXCEPT !.counts = CountEdges(@, page.edges, wanted)]
          IN req' = IF HasNextPage(page.pageInfo)
                      THEN [q EXCEPT !.after = EndCursor(page.pageInfo)]
                      ELSE [q EXCEPT !.pc = "rank"]
     \/ req' = Fail(req)
  /\ UNCHANGED <<listing, sales, jobs, calls>>

\* decorate, sort, and either the dry-run answer or the cap
Rank ==
  /\ req.pc = "rank"
  /\ \E desired \in {Desired(req.items, req.counts)} :
       LET cap == IF req.route = "sort" THEN Cap(req.topN, desired)
                  ELSE TopNAll(req.topN)
           q == [req EXCEPT !.desired = desired,
                            !.ranked = Append(@, [id |-> CurrentId(req),
                                                  desired |-> desired,
                                                  cap |-> cap])]
       IN req' =
            IF IsDryRun(req)
              THEN IF req.route = "sort"
                     THEN Respond(q, [ok |-> TRUE, status |-> 200,
                                      dryRun |-> TRUE,
                                      considered |-> Len(desired),
                                      preview |-> SliceTo(desired,
                                         Min(Len(desired), PreviewSort))])
                     ELSE Push(q, [id |-> CurrentId(req), kind |-> "preview",
                                   considered |-> Len(desired),
                                   preview |-> SliceTo(desired,
                                                       PreviewSortAll)])
              ELSE [q EXCEPT !.cap = cap, !.toApply = SliceTo(desired, cap),
                             !.pc = "manual"]
  /\ UNCHANGED <<listing, sales, jobs, calls>>

\* sortCollection.ts lines 12-17: collectionUpdate(sortOrder: MANUAL)
SetManual ==
  /\ req.pc = "manual"
  /\ calls' = Append(calls, [op |-> "collectionUpdate",
                             id |-> CurrentId(req)])
  /\ \/ req' = ApplyLoop([req EXCEPT !.i = 0])
     \/ req' = Fail(req)
  /\ UNCHANGED <<listing, sales, jobs>>

\* sortCollection.ts lines 22-33: one chunk is submitted
Reorder ==
  LET \* desiredOrder.map((id, idx) => ({ id, newPosition: String(idx) }))
      Moves(desiredOrder) ==
        [k \in 1..Len(desiredOrder) |->
           [id |-> desiredOrder[k], newPosition |-> StringOf(k - 1)]]
  IN
  /\ req.pc = "reorder"
  /\ \E chunk \in {Chunk(Moves(req.toApply), req.i)} :
       LET call(job) == [op |-> "reorder", id |-> CurrentId(req),
                         moves |-> chunk, job |-> job]
       IN
       \/ \* the platform starts a job
          /\ jobs' = Append(jobs, FALSE)
          /\ calls' = Append(calls, call(Some(Len(jobs) + 1)))
          /\ req' = [req EXCEPT !.jobId = Some(Len(jobs) + 1),
                                !.pending = 0, !.pc = "poll"]
       \/ \* no job id in the answer
          /\ calls' = Append(calls, call(Null))
          /\ req' = ApplyLoop([req EXCEPT !.i = @ + ChunkSize])
          /\ UNCHANGED jobs
       \/ \* admin.graphql throws
          /\ req' = Fail(req)
          /\ UNCHANGED <<jobs, calls>>
  /\ UNCHANGED <<listing, sales>>

\* sortCollection.ts lines 35-41: one poll of the job, and the 1 s sleep
Poll ==
  LET k == req.jobId[1] IN
  /\ req.pc = "poll"
  /\ \/ /\ JobDone(k)
        /\ calls' = Append(calls, [op |-> "job", id |-> k, done |-> TRUE])
        /\ req' = ApplyLoop([req EXCEPT !.i = @ + ChunkSize, !.jobId = Null])
     \/ /\ ~JobDone(k)
        /\ req.pending < MaxPending
        /\ calls' = Append(calls, [op |-> "job", id |-> k, done |-> FALSE])
        /\ req' = [req EXCEPT !.pending = @ + 1]
     \/ /\ req' = Fail(req)
        /\ UNCHANGED calls
  /\ UNCHANGED <<listing, sales, jobs>>

\* the platform finishes a reorder job
JobCompletes ==
  /\ \E k \in 1..Len(jobs) :
       /\ ~jobs[k]
       /\ jobs' = [jobs EXCEPT ![k] = TRUE]
  /\ UNCHANGED <<listing, sales, calls, req>>

-----------------------------------------------------------------------------
(* Bundle creation (app/routes/api.bundles.create.ts).  The repository     *)
(* holds several revisions of the route; the four modelled here are        *)
(*   "A"  api.bundles.create.ts lines 1-184   (inventoryQuantity only)     *)
(*   "E"  part_010 lines 1-236    (quantities, lower-case retry, fallback) *)
(*   "F"  part_010 lines 239-411  (validation, best-effort capacity)       *)
(*   "G"  part_011                (quantities, fallback, failure)          *)
(* A quantity q is held as the integer 2 * q, so that 0.5 and 1.5 are      *)
(* values; a variant id is the sequence of its parts.                      *)

Gid(key) == <<"gid://", key>>

ComponentLists ==
  LET \* twice the quantity q / 2
      Qty(h) == Num(h)

      \* the components a request may name: known variants, a variant the
      \* platform does not know, a malformed and a missing id; the quantities
      \* 1, 2, 0.5, 0, -1 and a value that is not a number
      Components ==
        {[variantId |-> Gid("V1"), qty |-> Qty(2)],
         [variantId |-> Gid("V1"), qty |-> Qty(4)],
         [variantId |-> Gid("V2"), qty |-> Qty(1)],
         [variantId |-> Gid("V2"), qty |-> Qty(0)],
         [variantId |-> Gid("V2"), qty |-> Qty(-2)],
         [variantId |-> Gid("V9"), qty |-> Qty(2)],
         [variantId |-> <<"V1">>, qty |-> Qty(2)],
         [variantId |-> <<>>, qty |-> Qty(2)],
         [variantId |-> Gid("V1"), qty |-> NaN]}
  IN
                  UNION {[1..n -> Components] : n \in 0..MaxComponents}

\* the inventories of the platform: available per location, which may be
\* negative (oversold)
Inventories ==
  {(Gid("V1") :> <<5, 2>>) @@ (Gid("V2") :> <<3>>),
   (Gid("V1") :> <<0, 0>>) @@ (Gid("V2") :> <<-3>>)}

\* "both": quantities(names:) takes either case of the name; "lower": it
\* rejects ["AVAILABLE"] with an error on Argument 'names'; "none": it
\* rejects the query
QuantitiesApis == {"both", "lower", "none"}

RECURSIVE Sum(_)
Sum(s) == IF s = <<>> THEN 0 ELSE Head(s) + Sum(Tail(s))

\* nodes(ids: $ids): one entry per id asked for, null for an unknown id
\* node[id] is the node of a known id
Nodes(ids, node) ==
  [i \in 1..Len(ids) |->
     IF ids[i] \in DOMAIN inventory THEN Some(node[ids[i]]) ELSE Null]

\* an answer with a top-level error list and no data
Rejected(message) == [errors |-> <<message>>, nodes |-> <<>>]

\* the answer to the InvQty / InvFallback query
InvQtyAnswer(ids) ==
  LET \* ... on ProductVariant { id inventoryQuantity }
      QuantityNode(id) == [id |-> id, inventoryQuantity |-> Sum(inventory[id])]
  IN
  [errors |-> <<>>,
   nodes |-> Nodes(ids, [id \in DOMAIN inventory |-> QuantityNode(id)])]

\* the answer to the Inv query: inventoryLevels { quantities(names:) }
InvAnswer(ids, name) ==
  IF quantitiesApi = "none" THEN Rejected("Field 'quantities' doesn't exist")
  ELSE IF quantitiesApi = "lower" /\ name = "AVAILABLE"
    THEN Rejected("Argument 'names' has an invalid value")
  ELSE LET node == [id \in DOMAIN inventory |->
                       [id |-> id,
                        levels |-> [l \in 1..Len(inventory[id]) |->
                                      <<[name |-> name,
                                         quantity |-> inventory[id][l]]>>]]]
       IN [errors |-> <<>>, nodes |-> Nodes(ids, node)]

\* the answer to the BundleCapacity query: inventoryLevels { available }
AvailableAnswer(ids) ==
  LET node == [id \in DOMAIN inventory |->
                 [id |-> id, levels |-> inventory[id]]]
  IN [errors |-> <<>>, nodes |-> Nodes(ids, node)]

\* Array.isArray(o?.errors) && o.errors.length > 0
hasGraphQLErr(o) == o.errors # <<>>

\* the map id -> total that the loop over the nodes builds; total names
\* the field the revision reads off a node
AvailByVariant(nodes, total) ==
  LET \* Number(n.inventoryQuantity ?? 0)
      QuantityTotal(n) == n.inventoryQuantity

      \* the sum over the levels of the quantity named AVAILABLE, else available,
      \* else 0
      LevelsTotal(n) ==
        LET q(list) ==
              IF \E k \in 1..Len(list) : list[k].name = "AVAILABLE"
                THEN list[CHOOSE k \in 1..Len(list) :
                            list[k].name = "AVAILABLE"].quantity
              ELSE IF \E k \in 1..Len(list) : list[k].name = "available"
                THEN list[CHOOSE k \in 1..Len(list) :
                            list[k].name = "available"].quantity
              ELSE 0
        IN Sum([l \in 1..Len(n.levels) |-> q(n.levels[l])])

      \* levels.reduce((sum, e) => sum + (Number(e?.node?.available ?? 0) || 0), 0)
      AvailableTotal(n) == Sum(n.levels)

      present == {i \in 1..Len(nodes) : nodes[i] # Null}
      read(n) == CASE total = "inventoryQuantity" -> QuantityTotal(n)
                   [] total = "quantities" -> LevelsTotal(n)
                   [] total = "available" -> AvailableTotal(n)
  IN [id \in {nodes[i][1].id : i \in present} |->
        read(nodes[CHOOSE i \in present : nodes[i][1].id = id][1])]

\* Math.max(1, Number(c.qty) || 1), as twice the number
Need(c) == IF ~c.qty.fin \/ c.qty.val = 0 THEN 2 ELSE Max(2, c.qty.val)

\* clamped: whether the revision takes Math.max(1, .) of the quantity
Capacity(components, avail, clamped) ==
  LET \* c.qty || 1, as twice the number
      NeedUnclamped(c) == IF ~c.qty.fin \/ c.qty.val = 0 THEN 2 ELSE c.qty.val

      \* Math.floor(have / need), for need > 0 held as twice the number
      CapThis(have, need) == (2 * have) \div need

      \* availByVariant.get(c.variantId) ?? 0
      Have(c) ==
        IF c.variantId \in DOMAIN avail THEN avail[c.variantId] ELSE 0

      \* the loop over the components: capacity = capacity === null ? capThis :
      \* Math.min(capacity, capThis), and 0 when it is still null at the end
      RECURSIVE CapacityFrom(_, _)
      CapacityFrom(acc, caps) ==
        IF caps = <<>> THEN Coalesce(acc, 0)
        ELSE CapacityFrom(IF acc = Null THEN Some(Head(caps))
                          ELSE Some(Min(acc[1], Head(caps))),
                          Tail(caps))
  IN
  CapacityFrom(Null, [i \in 1..Len(components) |->
                        CapThis(Have(components[i]),
                                IF clamped THEN Need(components[i])
                                ELSE NeedUnclamped(components[i]))])

\* ---- the request ----

IdleApi == [pc |-> "idle", op |-> "", response |-> Null]

\* return json(body, { status })
Reply(q, status, body) ==
  [q EXCEPT !.pc = "done", !.response = Some([status |-> status] @@ body)]

\* the catch of revisions A, E and G: status 500 with e?.message ||
\* String(e)
Caught(q, message) == Reply(q, 500, [ok |-> FALSE, error |-> message])

\* part_010 lines 269-276: the first component that is refused, if any
BadComponents(components) ==
  LET \* /gid:\/\//.test(c.variantId)
      IsGid(id) == \E i \in 1..Len(id) : id[i] = "gid://"
  IN
  {i \in 1..Len(components) :
     \/ components[i].variantId = <<>>
     \/ ~IsGid(components[i].variantId)
     \/ ~components[i].qty.fin
     \/ components[i].qty.val <= 0}

\* the checks on the body: title and components for every revision, each
\* component's id and quantity for revision F only; Null when they pass
Validate(q) ==
  IF q.title = "" THEN Some("Title is required")
  ELSE IF q.components = <<>>
    THEN Some("At least one component is required")
  ELSE IF q.version = "F" /\ BadComponents(q.components) # {}
    THEN Some("Bad component")
  ELSE Null

\* components.map(c => c.variantId)
VariantIds(q) == [i \in 1..Len(q.components) |-> q.components[i].variantId]

\* the capacity is computed and the product is created next
WithCapacity(q, nodes, total, clamped) ==
  [q EXCEPT !.capacity =
              Some(Capacity(q.components, AvailByVariant(nodes, total),
                            clamped)),
            !.pc = "product"]

From(name, rejected) == Some([query |-> name, rejected |-> rejected])

Logged(name, outcome) == Append(xcalls, [op |-> name, outcome |-> outcome])

\* the request arrives; revision F parses and checks the body before
\* anything else, the others authenticate first
BundleStart ==
  LET Versions == {"A", "E", "F", "G"}

      Titles == {"", "Kit"}
  IN
  /\ api.pc = "idle"
  /\ \E v \in Versions, t \in Titles, cs \in ComponentLists :
       LET q == [pc |-> "auth", op |-> "bundle", version |-> v,
                 title |-> t, components |-> cs,
                 capacity |-> Null, productId |-> Null, variantId |-> Null,
                 response |-> Null,
                 \* history: authentication has failed; the inventory
                 \* queries that were rejected; the query whose answer the
                 \* capacity was computed from, and whether that answer
                 \* was a rejection
                 authFailed |-> FALSE, rejected |-> {},
                 capacityFrom |-> Null]
       IN api' = IF v = "F" /\ Validate(q) # Null
                   THEN Reply(q, 400, [ok |-> FALSE, error |-> Validate(q)[1]])
                   ELSE q
  /\ UNCHANGED <<inventory, quantitiesApi, metafields, inventorySnapshot,
                 xcalls>>

\* authenticate.admin(request), and for A, E, G the checks on the body
BundleAuth ==
  /\ api.op = "bundle"
  /\ api.pc = "auth"
  /\ \/ \* the session is valid
        api' = IF api.version # "F" /\ Validate(api) # Null
                 THEN Reply(api, 400,
                            [ok |-> FALSE, error |-> Validate(api)[1]])
                 ELSE [api EXCEPT !.pc = "inv"]
     \/ \* authenticate.admin throws the redirect Response
        LET q == [api EXCEPT !.authFailed = TRUE] IN
        api' = IF api.version = "F"
                 THEN Reply(q, 401, [ok |-> FALSE, reauthUrl |-> "/auth"])
                 ELSE Caught(q, "[object Response]")
  /\ UNCHANGED <<inventory, quantitiesApi, metafields, inventorySnapshot,
                 xcalls>>

\* the first inventory query of the revision
BundleInventory ==
  LET \* invJson.errors.some(e => String(e?.message || "").includes("Argument
      \* 'names'"))
      NeedsLower(o) ==
        \E i \in 1..Len(o.errors) :
          o.errors[i] = "Argument 'names' has an invalid value"
  IN
  /\ api.op = "bundle"
  /\ api.pc = "inv"
  /\ LET ids == VariantIds(api) IN
     \/ /\ api.version = "A"
        /\ \E ans \in {InvQtyAnswer(ids), Rejected("Throttled")} :
             /\ xcalls' = Logged("InvQty", IF hasGraphQLErr(ans)
                                             THEN "errors" ELSE "data")
             /\ api' = IF hasGraphQLErr(ans)
                         THEN Reply([api EXCEPT !.rejected = @ \cup {"InvQty"}],
                                    400, [ok |-> FALSE,
                                          error |-> ans.errors[1]])
                         ELSE WithCapacity(
                                [api EXCEPT !.capacityFrom = From("InvQty", FALSE)],
                                ans.nodes, "inventoryQuantity", TRUE)
     \/ /\ api.version = "E"
        /\ \E ans \in {InvAnswer(ids, "AVAILABLE")} :
             /\ xcalls' = Logged("Inv", IF hasGraphQLErr(ans)
                                          THEN "errors" ELSE "data")
             /\ api' = IF hasGraphQLErr(ans)
                         THEN [api EXCEPT !.rejected = @ \cup {"Inv"},
                                          !.pc = IF NeedsLower(ans)
                                                   THEN "inv2"
                                                   ELSE "fallback"]
                         ELSE WithCapacity(
                                [api EXCEPT !.capacityFrom = From("Inv", FALSE)],
                                ans.nodes, "quantities", TRUE)
     \/ /\ api.version = "G"
        /\ \E ans \in {InvAnswer(ids, "available")} :
             /\ xcalls' = Logged("Inv", IF hasGraphQLErr(ans)
                                          THEN "errors" ELSE "data")
             /\ api' = IF hasGraphQLErr(ans)
                         THEN [api EXCEPT !.rejected = @ \cup {"Inv"},
                                          !.pc = "fallback"]
                         ELSE WithCapacity(
                                [api EXCEPT !.capacityFrom = From("Inv", FALSE)],
                                ans.nodes, "quantities", TRUE)
     \/ /\ api.version = "F"
        /\ \E ans \in {AvailableAnswer(ids), Rejected("Field 'available'")} :
             /\ xcalls' = Logged("BundleCapacity",
                                 IF hasGraphQLErr(ans) THEN "errors"
                                 ELSE "data")
             /\ api' = IF hasGraphQLErr(ans)
                         THEN \* thrown and caught: capacity = null
                              [api EXCEPT
                                 !.rejected = @ \cup {"BundleCapacity"},
                                 !.pc = "product"]
                         ELSE WithCapacity(
                                [api EXCEPT
                                   !.capacityFrom = From("BundleCapacity", FALSE)],
                                ans.nodes, "available", FALSE)
     \/ \* admin.graphql throws
        /\ xcalls' = Logged("inventory", "throw")
        /\ api' = IF api.version = "F" THEN [api EXCEPT !.pc = "product"]
                  ELSE Caught(api, "fetch failed")
  /\ UNCHANGED <<inventory, quantitiesApi, metafields, inventorySnapshot>>

\* revision E, part_010 lines 64-66: the quantities query again, with the
\* lower-case name
BundleInventoryLower ==
  /\ api.op = "bundle"
  /\ api.pc = "inv2"
  /\ \/ \E ans \in {InvAnswer(VariantIds(api), "available")} :
          /\ xcalls' = Logged("Inv", IF hasGraphQLErr(ans)
                                       THEN "errors" ELSE "data")
          /\ api' = IF hasGraphQLErr(ans)
                      THEN [api EXCEPT !.pc = "fallback"]
                      ELSE WithCapacity(
                             [api EXCEPT !.capacityFrom = From("Inv", FALSE)],
                             ans.nodes, "quantities", TRUE)
     \/ /\ xcalls' = Logged("inventory", "throw")
        /\ api' = Caught(api, "fetch failed")
  /\ UNCHANGED <<inventory, quantitiesApi, metafields, inventorySnapshot>>

\* revisions E and G: the InvFallback query; G answers 500 when it is
\* rejected too, E reads the nodes of whatever came back
BundleFallback ==
  /\ api.op = "bundle"
  /\ api.pc = "fallback"
  /\ \/ \E ans \in {InvQtyAnswer(VariantIds(api)), Rejected("Throttled")} :
          /\ xcalls' = Logged("InvFallback", IF hasGraphQLErr(ans)
                                               THEN "errors" ELSE "data")
          /\ api' =
               LET q == [api EXCEPT
                           !.rejected = IF hasGraphQLErr(ans)
                                          THEN @ \cup {"InvFallback"} ELSE @,
                           !.capacityFrom = From("InvFallback",
                                                 hasGraphQLErr(ans))]
               IN IF api.version = "G" /\ hasGraphQLErr(ans)
                    THEN Reply([q EXCEPT !.capacityFrom = Null], 500,
                               [ok |-> FALSE, error |-> ans.errors[1]])
                    ELSE WithCapacity(q, ans.nodes, "inventoryQuantity", TRUE)
     \/ /\ xcalls' = Logged("inventory", "throw")
        /\ api' = Caught(api, "fetch failed")
  /\ UNCHANGED <<inventory, quantitiesApi, metafields, inventorySnapshot>>

NoMetafields ==
  LET \* the metafields of the namespace "custom" on a product or collection:
      \* key -> the value saved, if any
      MetafieldKeys == {"bundle_components", "bundle_capacity", "sort_rules"}
  IN
                [k \in MetafieldKeys |-> Null]

\* metafieldsSet of one key
SetMetafield(m, key, value) == [m EXCEPT ![key] = Some(value)]

\* components.map(c => ({ variantId, qty: Math.max(1, Number(c.qty) || 1) }))
SavedComponents(components) ==
  [i \in 1..Len(components) |->
     [variantId |-> components[i].variantId, qty |-> Need(components[i])]]

\* the value of the bundle_capacity metafield: String(capacity) in A and E,
\* String(Math.max(0, capacity)) in G
SavedCapacity(q) ==
  LET \* String(n) for an integer n: the digits, after -1 for the minus sign
      StringOfInt(n) == IF n < 0 THEN <<-1>> \o StringOf(-n) ELSE StringOf(n)
  IN
  StringOfInt(IF q.version = "G" THEN Max(0, q.capacity[1])
              ELSE q.capacity[1])

\* productCreate: the product shell; revision F sends the components
\* metafield with it and answers, with status 200 whatever happened
BundleProduct ==
  /\ api.op = "bundle"
  /\ api.pc = "product"
  /\ \E outcome \in {"ok", "errors", "userErrors", "noId", "throw"} :
       /\ xcalls' = Logged("productCreate", outcome)
       /\ IF api.version = "F"
            THEN /\ api' =
                      IF outcome = "ok"
                        THEN Reply([api EXCEPT
                                      !.productId = Some("gid://P-new")],
                                   200, [ok |-> TRUE,
                                         productId |-> "gid://P-new",
                                         capacity |-> api.capacity])
                        ELSE Reply(api, 200, [ok |-> FALSE,
                                              error |-> outcome])
                 /\ metafields' =
                      IF outcome = "ok"
                        THEN SetMetafield(metafields, "bundle_components",
                                          api.components)
                        ELSE metafields
            ELSE /\ api' =
                      CASE outcome = "ok" ->
                             [api EXCEPT !.productId = Some("gid://P-new"),
                                         !.pc = "variantCreate"]
                        [] outcome = "userErrors" ->
                             Reply(api, 400, [ok |-> FALSE,
                                              error |-> "userErrors"])
                        [] outcome = "throw" -> Caught(api, "fetch failed")
                        [] OTHER ->
                             \* data without a product id (also what a
                             \* top-level error list amounts to)
                             Reply(api, 500,
                                   [ok |-> FALSE,
                                    error |-> "No productId from productCreate"])
                 /\ UNCHANGED metafields
  /\ UNCHANGED <<inventory, quantitiesApi, inventorySnapshot>>

\* productVariantCreate (A, E) or productVariantsBulkCreate (G): the shell
\* variant; only G checks that a variant id came back
BundleVariant ==
  /\ api.op = "bundle"
  /\ api.pc = "variantCreate"
  /\ \E outcome \in {"ok", "userErrors", "noId", "throw"} :
       /\ xcalls' = Logged("productVariantCreate", outcome)
       /\ api' =
            CASE outcome = "ok" ->
                   [api EXCEPT !.variantId = Some("gid://PV-new"),
                               !.pc = "metafields"]
              [] outcome = "userErrors" ->
                   Reply(api, 400, [ok |-> FALSE, error |-> "userErrors"])
              [] outcome = "throw" -> Caught(api, "fetch failed")
              [] OTHER ->
                   IF api.version = "G"
                     THEN Reply(api, 500,
                                [ok |-> FALSE,
                                 error |-> "No variantId from productVariantsBulkCreate"])
                     ELSE [api EXCEPT !.pc = "metafields"]
  /\ UNCHANGED <<inventory, quantitiesApi, metafields, inventorySnapshot>>

\* metafieldsSet: the components and the capacity are saved, and the
\* answer is given
BundleMetafields ==
  /\ api.op = "bundle"
  /\ api.pc = "metafields"
  /\ \E outcome \in {"ok", "userErrors", "throw"} :
       /\ xcalls' = Logged("metafieldsSet", outcome)
       /\ api' =
            CASE outcome = "ok" ->
                   Reply(api, 200, [ok |-> TRUE,
                                    productId |-> api.productId[1],
                                    variantId |-> api.variantId,
                                    capacity |-> api.capacity])
              [] outcome = "userErrors" ->
                   Reply(api, 400, [ok |-> FALSE, error |-> "userErrors"])
              [] OTHER -> Caught(api, "fetch failed")
       /\ metafields' =
            IF outcome = "ok"
              THEN SetMetafield(
                     SetMetafield(metafields, "bundle_components",
                                  SavedComponents(api.components)),
                     "bundle_capacity", SavedCapacity(api))
              ELSE metafields
  /\ UNCHANGED <<inventory, quantitiesApi, inventorySnapshot>>

-----------------------------------------------------------------------------
(* Authentication of the API routes.  The repository holds two revisions   *)
(* of app/server/reauth.server.ts: "v1" is part_001, "v2" is part_002.     *)
(* A call either returns a value or throws one.                            *)

Helpers == {"v1", "v2"}

Return(v) == [threw |-> FALSE, value |-> v]

\* `/auth${qs}` for a request without shop and host parameters
ReauthUrl == "/auth"

\* part_001 lines 8-26: never throws
ensureAdminOrJsonReauthV1(valid) ==
  IF valid
    THEN Return([admin |-> TRUE, reauth |-> FALSE])
    ELSE Return([admin |-> FALSE, reauth |-> TRUE, reauthUrl |-> ReauthUrl])

\* part_001 lines 29-39, part_002 lines 9-23
requireAdminAndShop(helper, valid) ==
  LET Throw(v) == [threw |-> TRUE, value |-> v]

      \* new Response(JSON.stringify(body), { status }), json(body, { status })
      Response(status, body) == [status |-> status, body |-> body]
  IN
  IF helper = "v1"
    THEN LET res == ensureAdminOrJsonReauthV1(valid).value IN
         IF "reauth" \in DOMAIN res /\ res.reauth
           THEN Throw(Response(401, [ok |-> FALSE,
                                     reauthUrl |-> res.reauthUrl]))
           ELSE Return(res)
  ELSE IF valid
    THEN Return([admin |-> TRUE])
    ELSE Throw(Response(401, [ok |-> FALSE, error |-> "reauth",
                              reauthUrl |-> ReauthUrl]))

\* part_001 lines 8-26; part_002 line 36 makes it requireAdminAndShop
ensureAdminOrJsonReauth(helper, valid) ==
  IF helper = "v1"
    THEN ensureAdminOrJsonReauthV1(valid)
    ELSE requireAdminAndShop(helper, valid)

\* a Response thrown out of a loader is the answer the framework sends
Escapes(q, err) == Reply(q, err.status, err.body)

\* api.products.search.ts lines 86-95: the catch looks for a reauthUrl
\* property on the thrown value itself
SearchCaught(q, err) ==
  LET \* err?.message || String(err)
      Message ==
        IF "message" \in DOMAIN err THEN err.message
        ELSE "[object Response]"
  IN
  IF "reauthUrl" \in DOMAIN err
    THEN Reply(q, 401, [ok |-> FALSE, reauthUrl |-> err.reauthUrl])
    ELSE Reply(q, 200, [ok |-> FALSE, error |-> Message])

\* api.products.search.ts lines 10-22: authentication and the empty query
SearchStart ==
  LET Terms == {"", "tee"}
  IN
  /\ api.pc = "idle"
  /\ \E helper \in Helpers, valid \in BOOLEAN, term \in Terms :
       LET q == [pc |-> "query", op |-> "search", helper |-> helper,
                 term |-> term, response |-> Null, authFailed |-> ~valid]
           r == requireAdminAndShop(helper, valid)
       IN api' = IF r.threw THEN SearchCaught(q, r.value)
                 ELSE IF term = "" THEN Reply(q, 200, [ok |-> TRUE,
                                                       items |-> <<>>])
                 ELSE q
  /\ UNCHANGED <<inventory, quantitiesApi, metafields, inventorySnapshot,
                 xcalls>>

\* api.products.search.ts lines 27-85: the ProductSearch query
SearchQuery ==
  /\ api.op = "search"
  /\ api.pc = "query"
  /\ \E outcome \in {"data", "errors", "throw"} :
       /\ xcalls' = Logged("ProductSearch", outcome)
       /\ api' =
            CASE outcome = "data" ->
                   Reply(api, 200, [ok |-> TRUE,
                                    items |-> <<api.term>>])
              [] outcome = "errors" ->
                   Reply(api, 200, [ok |-> FALSE, error |-> "Throttled"])
              [] outcome = "throw" ->
                   SearchCaught(api, [message |-> "fetch failed"])
  /\ UNCHANGED <<inventory, quantitiesApi, metafields, inventorySnapshot>>

FeaturesPayload == [ok |-> TRUE, features |-> {"bundles", "combinedListings"}]

\* api.features.ts: "A" is auth.exitframe.tsx lines 272-295, "B" is
\* auth.exitframe.tsx lines 297-320
FeaturesLoad ==
  /\ api.pc = "idle"
  /\ \E rev \in {"A", "B"}, helper \in Helpers, valid \in BOOLEAN :
       LET q == [pc |-> "auth", op |-> "features", version |-> rev,
                 helper |-> helper, response |-> Null,
                 authFailed |-> ~valid]
           r == IF rev = "A" THEN requireAdminAndShop(helper, valid)
                ELSE ensureAdminOrJsonReauth(helper, valid)
       IN api' =
            IF r.threw THEN Escapes(q, r.value)
            ELSE IF /\ rev = "B"
                    /\ "reauth" \in DOMAIN r.value
                    /\ r.value.reauth
              THEN Reply(q, 401, [ok |-> FALSE,
                                  reauthUrl |-> r.value.reauthUrl])
            ELSE Reply(q, 200, FeaturesPayload)
  /\ UNCHANGED <<inventory, quantitiesApi, metafields, inventorySnapshot,
                 xcalls>>

-----------------------------------------------------------------------------
(* Strategy customization (app/server/strategy.server.ts: part_003 and     *)
(* auth.exitframe.tsx lines 1-60, which differ in the client they call).   *)
(* The stored value is the text of the collection's sort_rules metafield;  *)
(* a text is empty or not, and holds the JSON value it parses to, if any.  *)

MaxRules == 2

DEFAULT_RULES == <<"in_stock", "sales_90d", "variants_in_stock", "alpha",
                   "oos_last">>

RuleLists ==
  LET \* the identifiers a stored list is drawn from
      RuleNames == {"in_stock", "sales_90d", "variants_in_stock", "alpha",
                    "oos_last", "pins_first", "bogus"}
  IN
             UNION {[1..n -> RuleNames] : n \in 0..MaxRules}

Json(kind, items, rules) == [kind |-> kind, items |-> items, rules |-> rules]
JsonArray(items) == Json("array", items, Null)
\* { rules: ... }, or {} when rules is Null
JsonObject(rules) == Json("object", <<>>, rules)

Text(empty, json) == [empty |-> empty, json |-> json]

\* JSON.stringify({ rules })
Stringify(rules) == Text(FALSE, Some(JsonObject(Some(JsonArray(rules)))))

\* the values the metafield can hold: none, "", a text that is not JSON,
\* null, a string, a list, {}, { rules: "alpha" }, { rules: [...] }
StoredValues ==
  LET JsonNull == Json("null", <<>>, Null)

      JsonString == Json("string", <<>>, Null)
  IN
  {Null, Some(Text(TRUE, Null)), Some(Text(FALSE, Null)),
   Some(Text(FALSE, Some(JsonNull))), Some(Text(FALSE, Some(JsonString))),
   Some(Text(FALSE, Some(JsonArray(<<"alpha">>)))),
   Some(Text(FALSE, Some(JsonObject(Null)))),
   Some(Text(FALSE, Some(JsonObject(Some(JsonString)))))}
  \cup {Some(Stringify(rules)) : rules \in RuleLists}
  \cup {Some(Stringify(DEFAULT_RULES)),
        Some(Stringify(<<"oos_last", "bogus", "alpha", "in_stock">>))}

\* part_003 lines 34-44: raw is data?.collection?.metafield?.value
loadCollectionRules(raw) ==
  LET \* (DEFAULT_RULES as string[]).includes(r)
      Includes(s, r) == \E i \in 1..Len(s) : s[i] = r

      IsDefaultRule(r) == Includes(DEFAULT_RULES, r)
  IN
  IF raw = Null \/ raw[1].empty THEN DEFAULT_RULES
  ELSE IF raw[1].json = Null THEN DEFAULT_RULES
  ELSE LET parsed == raw[1].json[1]
           arr == IF /\ parsed.rules # Null
                     /\ parsed.rules[1].kind = "array"
                    THEN parsed.rules[1].items
                    ELSE DEFAULT_RULES
       IN SelectSeq(arr, IsDefaultRule)

\* part_013 lines 194-201: the rules of a collection are read
StrategyLoad ==
  /\ api.pc \in {"idle", "saved"}
  /\ xcalls' = Logged("Strategy", "data")
  /\ api' = Reply([pc |-> "load", op |-> "strategy",
                   stored |-> metafields["sort_rules"], response |-> Null],
                  200,
                  [ok |-> TRUE,
                   rules |-> loadCollectionRules(metafields["sort_rules"]),
                   defaults |-> DEFAULT_RULES])
  /\ UNCHANGED <<inventory, quantitiesApi, metafields, inventorySnapshot>>

\* part_013 lines 203-212, part_003 lines 63-75: a list is stored as it is
\* sent, unless the platform refuses it
StrategySave ==
  /\ api.pc = "idle"
  /\ \E rules \in RuleLists, outcome \in {"ok", "userErrors"} :
       /\ xcalls' = Logged("SaveStrategy", outcome)
       /\ metafields' = IF outcome = "ok"
                          THEN SetMetafield(metafields, "sort_rules",
                                            Stringify(rules))
                          ELSE metafields
       /\ api' = [pc |-> "saved", op |-> "strategy", response |-> Null]
  /\ UNCHANGED <<inventory, quantitiesApi, inventorySnapshot>>

-----------------------------------------------------------------------------
(* Analytics over the Local Store: api.analytics.kpis.ts and               *)
(* api.analytics.aging-stock.ts.  A timestamp is a day number.  No route   *)
(* of the repository writes InventorySnapshot, so its rows are an input.   *)

\* the day of the analytics requests
Today == 100

\* risk.slice(0, 25)
RiskLimit == 25

\* variant ids, in the order ORDER BY "variantId" gives them
VariantNames ==
  <<"V1", "V10", "V11", "V12", "V13", "V14", "V15", "V16", "V17", "V18",
    "V19", "V2", "V20", "V21", "V22", "V23", "V24", "V25", "V26", "V27",
    "V3", "V4", "V5", "V6", "V7", "V8", "V9">>

\* a row of InventorySnapshot (part_000 lines 13-23)
Snapshot(id, variantId, snapshotDate, onHand) ==
  [id |-> id, snapshotDate |-> snapshotDate, productId |-> "P1",
   variantId |-> variantId, onHand |-> onHand]

\* SELECT DISTINCT ON ("variantId") ... ORDER BY "variantId",
\* "snapshotDate" DESC: one row per variant, any of the rows that share the
\* greatest date; the set of the results the database can give
DistinctOn(tbl) ==
  LET \* the rows with the greatest snapshotDate of their variant
      MaxRows ==
        {s \in tbl : \A t \in tbl :
           t.variantId = s.variantId => t.snapshotDate <= s.snapshotDate}
      tied == {s \in MaxRows : \E t \in MaxRows :
                 t.variantId = s.variantId /\ t # s}
      untied == MaxRows \ tied
  IN {untied \cup p : p \in {p \in SUBSET tied :
        \A s \in tied : \E t \in p :
          /\ t.variantId = s.variantId
          /\ \A u \in p : u.variantId = t.variantId => u = t}}

\* the rows of a DISTINCT ON result in the order of their variantId
RowsInOrder(pick) ==
  LET has(v) == \E s \in pick : s.variantId = v
      present == SelectSeq(VariantNames, has)
  IN [i \in 1..Len(present) |->
        CHOOSE s \in pick : s.variantId = present[i]]

RECURSIVE SumQty(_)
\* SUM("qty") of a set of OrderLine rows
SumQty(rows) ==
  IF rows = {} THEN 0
  ELSE LET r == CHOOSE r \in rows : TRUE IN r.qty + SumQty(rows \ {r})

\* kpis.ts line 49: on > 0 && weekly < 1
IsRiskAnyStock(on, u, days) == 7 * u < days
IsRisk(on, u, days) == on > 0 /\ 7 * u < days

\* kpis.ts line 54: the sign of the comparator
compareRisk(a, b) ==
  LET \* a.wos === b.wos
      WosEq(x, y) ==
        IF x.inf \/ y.inf THEN x.inf /\ y.inf
        ELSE x.num * y.den = y.num * x.den

      \* a.wos < b.wos
      WosLess(x, y) ==
        IF x.inf THEN FALSE
        ELSE IF y.inf THEN TRUE
        ELSE x.num * y.den < y.num * x.den
  IN
  IF WosEq(b.wos, a.wos) THEN b.onHand - a.onHand
  ELSE IF WosLess(a.wos, b.wos) THEN 1 ELSE -1

RECURSIVE RiskSort(_, _)
RiskSort(acc, s) ==
  LET \* Array.prototype.sort is stable: e goes after the entries it does not
      \* come before
      RiskInsert(into, e) ==
        LET before == {i \in 1..Len(into) : compareRisk(into[i], e) <= 0}
            k == IF before = {} THEN 0
                 ELSE CHOOSE i \in before : \A j \in before : j <= i
        IN SubSeq(into, 1, k) \o <<e>> \o SubSeq(into, k + 1, Len(into))
  IN
  IF s = <<>> THEN acc ELSE RiskSort(RiskInsert(acc, Head(s)), Tail(s))

\* kpis.ts lines 32-55: the risk list of the latest rows and the units
Risks(latest, lines, days, now) ==
  LET \* kpis.ts lines 25-30 and 33, 41: the units of a variant in the window
      UnitsOf(from, vid) ==
        SumQty({l \in lines :
                  l.createdAt >= from /\ l.variantId = Some(vid)})

      \* on / weekly with weekly = u / (days / 7), Infinity unless weekly > 0;
      \* a finite value is the fraction num / den, den > 0
      Wos(on, u) ==
        IF u > 0 THEN [inf |-> FALSE, num |-> on * days, den |-> 7 * u]
        ELSE [inf |-> TRUE, num |-> 0, den |-> 1]

      since == now - days
      entry(row) ==
        LET u == UnitsOf(since, row.variantId) IN
        [variantId |-> row.variantId, onHand |-> row.onHand, units |-> u,
         wos |-> Wos(row.onHand, u)]
      all == [i \in 1..Len(latest) |-> entry(latest[i])]
      isRisk(e) == IsRisk(e.onHand, e.units, days)
      sorted == RiskSort(<<>>, SelectSeq(all, isRisk))
  IN SubSeq(sorted, 1, Min(RiskLimit, Len(sorted)))

\* kpis.ts lines 8-13: authentication, whose result is not looked at, and
\* the window
KpisStart ==
  LET \* the `days` parameter: absent, or a number
      DaysParams == {Null, Some(7), Some(14), Some(28), Some(56)}

      \* Math.max(14, Number(url.searchParams.get("days") || "28"))
      DaysOf(param) == Max(14, Coalesce(param, 28))
  IN
  /\ api.pc = "idle"
  /\ \E helper \in Helpers, valid \in BOOLEAN, param \in DaysParams :
       LET q == [pc |-> "latest", op |-> "kpis", helper |-> helper,
                 days |-> DaysOf(param), latest |-> <<>>,
                 response |-> Null, authFailed |-> ~valid]
           r == ensureAdminOrJsonReauth(helper, valid)
       IN api' = IF r.threw THEN Escapes(q, r.value) ELSE q
  /\ UNCHANGED <<storeVars, ingestVars, sortVars, inventory, quantitiesApi,
                 metafields, inventorySnapshot, xcalls>>

\* kpis.ts lines 16-22: the latest row of every variant
KpisLatest ==
  /\ api.op = "kpis"
  /\ api.pc = "latest"
  /\ \E pick \in DistinctOn(inventorySnapshot) :
       api' = [api EXCEPT !.latest = RowsInOrder(pick), !.pc = "sales"]
  /\ UNCHANGED <<storeVars, ingestVars, sortVars, inventory, quantitiesApi,
                 metafields, inventorySnapshot, xcalls>>

\* kpis.ts lines 25-64: the units of the window, the risk list, the answer
KpisSales ==
  /\ api.op = "kpis"
  /\ api.pc = "sales"
  /\ \E risks \in {Risks(api.latest, orderLine, api.days, clock)} :
       api' = Reply(api, 200, [ok |-> TRUE, risks |-> risks])
  /\ UNCHANGED <<storeVars, ingestVars, sortVars, inventory, quantitiesApi,
                 metafields, inventorySnapshot, xcalls>>

BandBelowLimit(ageDays) ==
  IF ageDays < 30 THEN "0-30"
  ELSE IF ageDays < 60 THEN "31-60"
  ELSE IF ageDays < 90 THEN "61-90"
  ELSE "90+"

\* aging-stock.ts lines 38-41
Band(ageDays) ==
  IF ageDays <= 30 THEN "0-30"
  ELSE IF ageDays <= 60 THEN "31-60"
  ELSE IF ageDays <= 90 THEN "61-90"
  ELSE "90+"

RECURSIVE SumOnHand(_)
SumOnHand(rows) ==
  IF rows = <<>> THEN 0 ELSE Head(rows).onHand + SumOnHand(Tail(rows))

\* aging-stock.ts lines 32-45
Bands(latest, products, now) ==
  LET BandNames == <<"0-30", "31-60", "61-90", "90+">>

      \* aging-stock.ts lines 36-37: created is a date, null, or undefined
      \* when the product has no row
      AgeDays(productId) ==
        LET rows == {p \in products : p.id = productId}
            created == IF rows = {} THEN Null
                       ELSE (CHOOSE p \in rows : TRUE).createdAt
        IN IF created # Null THEN now - created[1] ELSE 0
  IN
  [b \in 1..Len(BandNames) |->
     LET inBand(row) ==
           Band(AgeDays(row.productId)) = BandNames[b]
     IN [band |-> BandNames[b],
         onHand |-> SumOnHand(SelectSeq(latest, inBand))]]

\* aging-stock.ts line 8
AgingStart ==
  /\ api.pc = "idle"
  /\ \E helper \in Helpers, valid \in BOOLEAN :
       LET q == [pc |-> "latest", op |-> "aging", helper |-> helper,
                 latest |-> <<>>, response |-> Null, authFailed |-> ~valid]
           r == ensureAdminOrJsonReauth(helper, valid)
       IN api' = IF r.threw THEN Escapes(q, r.value) ELSE q
  /\ UNCHANGED <<storeVars, ingestVars, sortVars, inventory, quantitiesApi,
                 metafields, inventorySnapshot, xcalls>>

\* aging-stock.ts lines 11-24: the latest rows; without rows no product is
\* looked up
AgingLatest ==
  LET \* aging-stock.ts lines 11-19: the latest row of every variant that has a
      \* Variant row, with the productId of that row
      Joined(snapshots, variants) ==
        {[s EXCEPT !.productId =
            (CHOOSE v \in variants : v.id = s.variantId).productId] :
           s \in {t \in snapshots : HasRow(variants, t.variantId)}}
  IN
  /\ api.op = "aging"
  /\ api.pc = "latest"
  /\ \E pick \in DistinctOn(Joined(inventorySnapshot, variant)) :
       LET q == [api EXCEPT !.latest = RowsInOrder(pick)] IN
       api' = IF pick = {}
                THEN Reply(q, 200, [ok |-> TRUE,
                                    bands |-> Bands(<<>>, {}, clock)])
                ELSE [q EXCEPT !.pc = "products"]
  /\ UNCHANGED <<storeVars, ingestVars, sortVars, inventory, quantitiesApi,
                 metafields, inventorySnapshot, xcalls>>

\* a faulty loader that drops the Product rows it has read
AgingProductsConsumes ==
  /\ api.op = "aging"
  /\ api.pc = "products"
  /\ api' = Reply(api, 200, [ok |-> TRUE,
                             bands |-> Bands(api.latest, product,
                                             clock)])
  /\ product' = {p \in product :
                   \A i \in 1..Len(api.latest) :
                     api.latest[i].productId # p.id}
  /\ UNCHANGED <<variant, orderLine, ingestCursor, ingestVars, sortVars,
                 inventory, quantitiesApi, metafields, inventorySnapshot,
                 xcalls>>

\* aging-stock.ts lines 25-46: the creation dates, the bands, the answer
AgingProducts ==
  /\ api.op = "aging"
  /\ api.pc = "products"
  /\ api' = Reply(api, 200, [ok |-> TRUE,
                             bands |-> Bands(api.latest, product,
                                             clock)])
  /\ UNCHANGED <<storeVars, ingestVars, sortVars, inventory, quantitiesApi,
                 metafields, inventorySnapshot, xcalls>>

\* the `from` and `to` parameters: absent, or a date
RangeParams == {Null, Some(Today - 2), Some(Today - 1)}

\* "createdAt" >= from AND "createdAt" < to + 1 day
InRange(l, from, to) == l.createdAt >= from /\ l.createdAt < to + 1

RECURSIVE SumNet(_)
\* SUM("netAmount") of a set of OrderLine rows
SumNet(rows) ==
  IF rows = {} THEN 0
  ELSE LET r == CHOOSE r \in rows : TRUE IN r.netAmount + SumNet(rows \ {r})

\* overview.ts lines 18-30: units and revenue of every day with a line
SeriesByDay(lines, from, to) ==
  LET inRange == {l \in lines : InRange(l, from, to)} IN
  {[day |-> d,
    units |-> SumQty({l \in inRange : l.createdAt = d}),
    revenue |-> SumNet({l \in inRange : l.createdAt = d})] :
     d \in {l.createdAt : l \in inRange}}

\* overview.ts lines 32-47: units and revenue of every product with a line,
\* with the title of its Product row if it has one; the fixtures hold fewer
\* than the 20 products of the LIMIT
TopProducts(lines, products, from, to) ==
  LET inRange == {l \in lines : InRange(l, from, to)}
      titleOf(pid) ==
        IF pid # Null /\ HasRow(products, pid[1])
          THEN Some((CHOOSE p \in products : p.id = pid[1]).title)
          ELSE Null
  IN {[productId |-> pid, title |-> titleOf(pid),
       units |-> SumQty({l \in inRange : l.productId = pid}),
       revenue |-> SumNet({l \in inRange : l.productId = pid})] :
        pid \in {l.productId : l \in inRange}}

\* overview.ts lines 8-30: authenticate.admin throws its redirect, or the
\* daily series is read
OverviewStart ==
  /\ api.pc = "idle"
  /\ \E valid \in BOOLEAN, from \in RangeParams, to \in RangeParams :
       LET q == [pc |-> "top", op |-> "overview",
                 from |-> Coalesce(from, clock - 30),
                 to |-> Coalesce(to, clock),
                 series |-> {}, response |-> Null, authFailed |-> ~valid]
       IN api' = IF ~valid THEN Reply(q, 302, [location |-> "/auth/login"])
                 ELSE [q EXCEPT !.series =
                                  SeriesByDay(orderLine, q.from, q.to)]
  /\ UNCHANGED <<storeVars, ingestVars, sortVars, inventory, quantitiesApi,
                 metafields, inventorySnapshot, xcalls>>

\* overview.ts lines 32-58: the top products, the totals, the answer
OverviewTop ==
  /\ api.op = "overview"
  /\ api.pc = "top"
  /\ api' = Reply(api, 200,
                  [ok |-> TRUE, fromISO |-> api.from, toISO |-> api.to,
                   totals |-> [units |-> SumQty({[qty |-> r.units, day |-> r.day]
                                                   : r \in api.series}),
                               revenue |-> SumNet({[netAmount |-> r.revenue,
                                                     day |-> r.day]
                                                     : r \in api.series})],
                   series |-> api.series,
                   top |-> TopProducts(orderLine, product, api.from, api.to)])
  /\ UNCHANGED <<storeVars, ingestVars, sortVars, inventory, quantitiesApi,
                 metafields, inventorySnapshot, xcalls>>

\* api.combined.create.ts lines 88-96 (api.analytics.size-curve.ts): units
\* by COALESCE(size, 'Unknown') of the lines whose variant has a row
SizeRows(lines, variants, from, to) ==
  LET sizeOf(l) ==
        Coalesce((CHOOSE v \in variants : Some(v.id) = l.variantId).size,
                 "Unknown")
      joined == {l \in lines :
                   /\ InRange(l, from, to)
                   /\ \E v \in variants : Some(v.id) = l.variantId}
  IN {[size |-> z, units |-> SumQty({l \in joined : sizeOf(l) = z})] :
        z \in {sizeOf(l) : l \in joined}}

\* api.combined.create.ts lines 79-106: the size curve
SizeCurveLoad ==
  LET \* Math.round(units * 1000 / total) / 10, in tenths of a percent
      PctTenths(units, total) ==
        IF total = 0 THEN 0 ELSE (2 * units * 1000 + total) \div (2 * total)
  IN
  /\ api.pc = "idle"
  /\ \E helper \in Helpers, valid \in BOOLEAN,
        from \in RangeParams, to \in RangeParams :
       LET q == [pc |-> "rows", op |-> "sizeCurve", helper |-> helper,
                 response |-> Null, authFailed |-> ~valid]
           r == ensureAdminOrJsonReauth(helper, valid)
           rows == SizeRows(orderLine, variant, Coalesce(from, clock - 30),
                            Coalesce(to, clock))
           total == SumQty({[qty |-> x.units, size |-> x.size] : x \in rows})
       IN api' = IF r.threw THEN Escapes(q, r.value)
                 ELSE Reply(q, 200,
                            [ok |-> TRUE,
                             series |-> {[size |-> x.size, units |-> x.units,
                                          pct |-> PctTenths(x.units, total)] :
                                           x \in rows}])
  /\ UNCHANGED <<storeVars, ingestVars, sortVars, inventory, quantitiesApi,
                 metafields, inventorySnapshot, xcalls>>

\* rows as the orders ingestion writes them
VariantRow(id, productId, size) ==
  [id |-> id, productId |-> productId, title |-> Null, sku |-> Null,
   size |-> size, color |-> Null]

ProductRow(id, createdAt) ==
  [id |-> id, title |-> "", vendor |-> Null, createdAt |-> createdAt]

OrderLineRow(id, variantId, createdAt, qty) ==
  [id |-> id, orderId |-> "O1", createdAt |-> createdAt, productId |-> Null,
   variantId |-> variantId, qty |-> qty, currency |-> "AUD", netAmount |-> 0]

\* the stores the analytics requests are run against
AnalyticsStores ==
  LET \* the ages a product of the fixtures can have, around the band limits
      Ages == {-1, 0, 30, 31, 60, 61, 90, 91}

      CreatedDates == {Null} \cup {Some(Today - a) : a \in Ages}

      \* three variants with a Variant row, of the products P1, P2 and P3;
      \* P3 has no Product row
      SmallVariants ==
        {VariantRow("V1", "P1", Some("S")), VariantRow("V2", "P2", Null),
         VariantRow("V3", "P3", Some("S"))}

      SmallProducts(created) ==
        {ProductRow("P1", created), ProductRow("P2", Some(Today - 45))}

      \* snapshots: V1 has an older row and two rows that share the latest
      \* date, V4 has no Variant row
      SnapshotTables ==
        SUBSET {Snapshot("s1", "V1", Today - 2, 2),
                Snapshot("s2", "V1", Today - 1, 1),
                Snapshot("s3", "V1", Today - 1, 3),
                Snapshot("s4", "V2", Today - 1, 2),
                Snapshot("s5", "V2", Today - 3, 0),
                Snapshot("s6", "V3", Today - 1, -1),
                Snapshot("s7", "V4", Today - 1, 5)}

      \* order lines: inside the window, on its first day, before it, without a
      \* variant, and of a variant without stock
      SalesTables ==
        {{},
         {OrderLineRow("l1", Some("V1"), Today - 1, 1),
          OrderLineRow("l2", Some("V2"), Today - 1, 1),
          OrderLineRow("l3", Some("V2"), Today - 2, 1)},
         {OrderLineRow("l1", Some("V1"), Today - 1, 4),
          OrderLineRow("l2", Some("V2"), Today - 29, 3),
          OrderLineRow("l3", Null, Today - 1, 9)},
         {OrderLineRow("l1", Some("V1"), Today - 28, 3),
          OrderLineRow("l2", Some("V3"), Today - 1, 1),
          OrderLineRow("l3", Some("V2"), Today - 1, 1),
          OrderLineRow("l4", Some("V4"), Today - 14, 1)}}

      \* more variants at risk than the risk list holds: variant n has 1 + n % 3
      \* on hand and has sold n % 4 units
      ManyVariants ==
        [product |-> {ProductRow("P1", Some(Today - 45))},
         variant |-> {VariantRow(VariantNames[n], "P1", Null) :
                        n \in 1..Len(VariantNames)},
         orderLine |-> {OrderLineRow(VariantNames[n], Some(VariantNames[n]),
                                     Today - 1, n % 4) :
                          n \in 1..Len(VariantNames)},
         inventorySnapshot |-> {Snapshot(VariantNames[n], VariantNames[n],
                                         Today - 1, 1 + (n % 3)) :
                                  n \in 1..Len(VariantNames)}]
  IN
  {[product |-> SmallProducts(Some(Today - 45)), variant |-> SmallVariants,
    orderLine |-> l, inventorySnapshot |-> t] :
     l \in SalesTables, t \in SnapshotTables}
  \cup {[product |-> SmallProducts(c), variant |-> SmallVariants,
         orderLine |-> {}, inventorySnapshot |-> t] :
          c \in CreatedDates, t \in SnapshotTables}
  \cup {ManyVariants}

-----------------------------------------------------------------------------
(* Specifications *)

vars == <<storeVars, ingestVars, sortVars, apiVars>>

\* the Local Store after an ingestion of the first revision of the orders
IngestedStore ==
  [product |-> ProductUpsert({}, RemoteProduct),
   variant |-> VariantUpsert({}, RemoteVariant("V1"), Some(RemoteProduct)),
   orderLine |-> {OrderLineCreate(RemoteOrders(0)[1], RemoteLineItem("L1", 0))},
   ingestCursor |-> IngestCursorUpsert({}, "shopA", 1)]

\* no ingestion request has arrived yet
IngestIdle ==
  /\ remoteVer = 0
  /\ clock = MaxDate - 1
  /\ starts = 0
  /\ run = [r \in Runs |-> IdleRun]
  /\ firstCreate = [id \in LineIds |-> Null]

\* no other API request has arrived yet
ApiIdle ==
  /\ inventory = <<>>
  /\ quantitiesApi = "both"
  /\ metafields = NoMetafields
  /\ inventorySnapshot = {}
  /\ api = IdleApi
  /\ xcalls = <<>>

\* no ranking request has arrived yet
SortIdle ==
  /\ jobs = <<>>
  /\ calls = <<>>
  /\ req = IdleReq

InitIngest ==
  /\ product = {}
  /\ variant = {}
  /\ orderLine = {}
  /\ ingestCursor = {}
  /\ IngestIdle
  /\ listing = <<>>
  /\ sales = <<>>
  /\ SortIdle
  /\ ApiIdle

NextIngest ==
  /\ \/ \E r \in Runs :
          \/ IngestStart(r)
          \/ IngestOrdersPage(r)
          \/ IngestProduct(r)
          \/ IngestVariant(r)
          \/ IngestOrderLine(r)
          \/ IngestLineItemsPage(r)
          \/ IngestCursorWrite(r)
     \/ RemoteEdit
     \/ Tick
  /\ UNCHANGED <<sortVars, apiVars>>

\* concurrent orders-ingestion requests against an empty store
SpecIngest == InitIngest /\ [][NextIngest]_vars

\* the same requests within one day and on an unedited catalog, where the
\* event loop resumes every suspended request: an awaited call settles (it
\* answers or it throws) and the request runs on
NextIngestLive ==
  /\ \E r \in Runs :
       \/ IngestStart(r)
       \/ IngestOrdersPage(r)
       \/ IngestProduct(r)
       \/ IngestVariant(r)
       \/ IngestOrderLine(r)
       \/ IngestLineItemsPage(r)
       \/ IngestCursorWrite(r)
  /\ UNCHANGED <<sortVars, apiVars>>

SpecIngestLive ==
  /\ InitIngest
  /\ [][NextIngestLive]_vars
  /\ \A r \in Runs :
       WF_vars((\/ IngestOrdersPage(r)
                \/ IngestProduct(r)
                \/ IngestVariant(r)
                \/ IngestOrderLine(r)
                \/ IngestLineItemsPage(r)
                \/ IngestCursorWrite(r)) /\ UNCHANGED <<sortVars, apiVars>>)

InitStore ==
  /\ product = IngestedStore.product
  /\ variant = IngestedStore.variant
  /\ orderLine = IngestedStore.orderLine
  /\ ingestCursor = IngestedStore.ingestCursor
  /\ IngestIdle

InitSort ==
  /\ InitStore
  /\ listing \in ApplyListings
  /\ sales \in SalesData
  /\ SortIdle
  /\ ApiIdle

InitRank ==
  /\ InitStore
  /\ listing \in RankListings
  /\ sales \in RankSales
  /\ SortIdle
  /\ ApiIdle

NextSort ==
  /\ \/ SortStart
     \/ SortAllStart
     \/ FetchCollections
     \/ FetchProducts
     \/ FetchSales
     \/ Rank
     \/ SetManual
     \/ Reorder
     \/ Poll
     \/ JobCompletes
  /\ UNCHANGED <<storeVars, ingestVars, apiVars>>

\* one ranking request against a shop whose collections span several chunks
SpecSort == InitSort /\ [][NextSort]_vars

\* the same request, where every call of sortCollection is answered in the
\* end (nothing forces a call to throw) and the platform finishes every
\* reorder job it has started
SpecSortLive ==
  /\ SpecSort
  /\ WF_vars((SetManual \/ Reorder \/ Poll) /\ calls' # calls
               /\ UNCHANGED <<storeVars, ingestVars, apiVars>>)
  /\ WF_vars(JobCompletes /\ UNCHANGED <<storeVars, ingestVars, apiVars>>)

\* one ranking request against every small collection
SpecRank == InitRank /\ [][NextSort]_vars

InitBundle ==
  /\ InitStore
  /\ listing = <<>>
  /\ sales = <<>>
  /\ SortIdle
  /\ inventory \in Inventories
  /\ quantitiesApi \in QuantitiesApis
  /\ metafields = NoMetafields
  /\ inventorySnapshot = {}
  /\ api = IdleApi
  /\ xcalls = <<>>

NextBundle ==
  /\ \/ BundleStart
     \/ BundleAuth
     \/ BundleInventory
     \/ BundleInventoryLower
     \/ BundleFallback
     \/ BundleProduct
     \/ BundleVariant
     \/ BundleMetafields
  /\ UNCHANGED <<storeVars, ingestVars, sortVars>>

\* one bundle-creation request, in each revision of the route
SpecBundle == InitBundle /\ [][NextBundle]_vars

InitAnalytics ==
  /\ \E s \in AnalyticsStores :
       /\ product = s.product
       /\ variant = s.variant
       /\ orderLine = s.orderLine
       /\ inventorySnapshot = s.inventorySnapshot
  /\ ingestCursor = {}
  /\ remoteVer = 0
  /\ clock = Today
  /\ starts = 0
  /\ run = [r \in Runs |-> IdleRun]
  /\ firstCreate = [id \in LineIds |-> Null]
  /\ listing = <<>>
  /\ sales = <<>>
  /\ SortIdle
  /\ inventory = <<>>
  /\ quantitiesApi = "both"
  /\ metafields = NoMetafields
  /\ api = IdleApi
  /\ xcalls = <<>>

NextAnalytics ==
  \/ KpisStart
  \/ KpisLatest
  \/ KpisSales
  \/ AgingStart
  \/ AgingLatest
  \/ AgingProducts
  \/ OverviewStart
  \/ OverviewTop
  \/ SizeCurveLoad

\* one analytics request against a store with inventory snapshots
SpecAnalytics == InitAnalytics /\ [][NextAnalytics]_vars

NextApi ==
  \/ NextBundle
  \/ NextAnalytics
  \/ /\ \/ SearchStart
        \/ SearchQuery
        \/ FeaturesLoad
     /\ UNCHANGED <<storeVars, ingestVars, sortVars>>

InitApi ==
  /\ InitStore
  /\ listing = <<>>
  /\ sales = <<>>
  /\ SortIdle
  /\ inventory \in Inventories
  /\ quantitiesApi \in QuantitiesApis
  /\ metafields = NoMetafields
  /\ inventorySnapshot \in {{}, {Snapshot("s1", "V1", 1, 2)}}
  /\ api = IdleApi
  /\ xcalls = <<>>

\* one request to one of the API routes, with or without a valid session
SpecApi == InitApi /\ [][NextApi]_vars

InitStrategy ==
  /\ InitStore
  /\ listing = <<>>
  /\ sales = <<>>
  /\ SortIdle
  /\ inventory = <<>>
  /\ quantitiesApi = "both"
  /\ metafields \in {[NoMetafields EXCEPT !["sort_rules"] = raw] :
                       raw \in StoredValues}
  /\ inventorySnapshot = {}
  /\ api = IdleApi
  /\ xcalls = <<>>

NextStrategy ==
  /\ \/ StrategyLoad
     \/ StrategySave
  /\ UNCHANGED <<storeVars, ingestVars, sortVars>>

\* the rules of a collection are stored and read back
SpecStrategy == InitStrategy /\ [][NextStrategy]_vars

\* a collection of three products is ranked while rule lists are stored for
\* it
InitRules ==
  /\ InitStore
  /\ listing = <<Collection(1, <<Catalog[3], Catalog[1], Catalog[2]>>)>>
  /\ sales \in SalesData
  /\ SortIdle
  /\ ApiIdle

NextRules ==
  \/ NextSort
  \/ StrategySave /\ UNCHANGED <<storeVars, ingestVars, sortVars>>

SpecRules == InitRules /\ [][NextRules]_vars

\* the requests of one kind are still to come, the others have ended:
\* ingestion requests against an empty store, or a ranking request, or a
\* request to one of the other API routes against an ingested store
InitOperations ==
  LET \* every ingestion request of the behaviour has been received and has ended
      IngestOver ==
        /\ remoteVer = 1
        /\ clock = MaxDate
        /\ starts = MaxStarts
        /\ run = [r \in Runs |-> IdleRun]
        /\ firstCreate = [id \in LineIds |-> Null]

      \* the ranking request of the behaviour has been answered (api.sort.ts
      \* without a collectionId)
      SortOver ==
        /\ jobs = <<>>
        /\ calls = <<>>
        /\ req = Respond([IdleReq EXCEPT !.route = "sort"],
                         [ok |-> FALSE, status |-> 400])

      \* the API request of the behaviour has been answered (api.features.ts)
      ApiOver ==
        /\ inventory = <<>>
        /\ quantitiesApi = "both"
        /\ metafields = NoMetafields
        /\ inventorySnapshot = {}
        /\ api = Reply([pc |-> "auth", op |-> "features", version |-> "A",
                        helper |-> "v2", response |-> Null, authFailed |-> FALSE],
                       200, FeaturesPayload)
        /\ xcalls = <<>>
  IN
  \/ /\ product = {}
     /\ variant = {}
     /\ orderLine = {}
     /\ ingestCursor = {}
     /\ IngestIdle
     /\ listing = <<>>
     /\ sales = <<>>
     /\ SortOver
     /\ ApiOver
  \/ /\ product = IngestedStore.product
     /\ variant = IngestedStore.variant
     /\ orderLine = IngestedStore.orderLine
     /\ ingestCursor = IngestedStore.ingestCursor
     /\ IngestOver
     /\ \/ /\ listing \in RankListings
           /\ sales \in SalesData
           /\ SortIdle
           /\ ApiOver
        \/ /\ listing = <<>>
           /\ sales = <<>>
           /\ SortOver
           /\ inventory \in Inventories
           /\ quantitiesApi \in QuantitiesApis
           /\ metafields = NoMetafields
           /\ inventorySnapshot \in {{}, {Snapshot("s1", "V1", 1, 2)}}
           /\ api = IdleApi
           /\ xcalls = <<>>

NextOperations ==
  \/ NextIngest
  \/ NextSort
  \/ NextApi
  \/ NextStrategy

\* every operation of the application, one kind of request at a time
SpecOperations == InitOperations /\ [][NextOperations]_vars

-----------------------------------------------------------------------------
(* Properties of orders ingestion *)

RowsOf(id) == {row \in orderLine : row.id = id}

\* the upsert of line `id` by run r has been issued (r iterated the line and
\* is no longer suspended before its OrderLine upsert)
Upserted(r, id) ==
  /\ id \in run[r].seen
  /\ ~(run[r].pc \in {"variant", "orderLine"}
        /\ run[r].liEdges[run[r].lj].id = id)

\* the line item a suspended run has just upserted, as the remote served it
JustUpserted(r, id) ==
  /\ run[r].pc \in {"fetchLI", "fetchOrders", "cursor"}
  /\ run[r].lj >= 1
  /\ run[r].lj = Len(run[r].liEdges)
  /\ run[r].liEdges[run[r].lj].id = id

\* C1: whatever number of ingestions has upserted a line item id, and
\* whatever values the remote served on the later ones, the OrderLine table
\* holds exactly one row with that id, and the row is the one the first
\* upsert of that id created (orderId, createdAt, productId, variantId, qty,
\* currency, netAmount).
C1_ReingestIsNoOp ==
  \A id \in LineIds :
    firstCreate[id] # Null => RowsOf(id) = {firstCreate[id][1]}

\* C1 witness: a run has just re-upserted L1 with values that differ from
\* those of the first ingestion.
C1_Witness ==
  \E r \in Runs :
    /\ JustUpserted(r, "L1")
    /\ firstCreate["L1"] # Null
    /\ OrderLineCreate(run[r].edges[run[r].ei], run[r].liEdges[run[r].lj])
         # firstCreate["L1"][1]

\* C2: once an external call of a run has failed (thrown, or answered with
\* an error list and no data) the run never reports success and never
\* writes the IngestCursor table.
C2_FailedRunLeavesCursor ==
  [][\A r \in Runs :
       run'[r].clientFailed =>
         /\ run'[r].pc # "done"
         /\ (run'[r] # run[r] => ingestCursor' = ingestCursor)]_vars

\* C3: the cursor write of a successful run never lowers the date stored
\* for the shop.
C3_CursorNeverDecreases ==
  [][\A r \in Runs :
       (run[r].pc = "cursor" /\ run'[r].pc = "done" /\ ~run[r].clientFailed)
         => \A a \in ingestCursor, b \in ingestCursor' :
              a.shop = b.shop => b.sinceISO >= a.sinceISO]_vars

\* C4: under every interleaving of the runs, no two OrderLine rows share an
\* id, and every line item a run has iterated and upserted is stored
\* exactly once.
C4_NoDuplicateFacts ==
  /\ \A a \in orderLine, b \in orderLine : a.id = b.id => a = b
  /\ \A r \in Runs : \A id \in LineIds :
       Upserted(r, id) => Cardinality(RowsOf(id)) = 1

\* C4 witness: two runs over different, overlapping windows are both in
\* flight and both have upserted L3, the remote having been edited since
\* the row was first created.
C4_Witness ==
  /\ run[1].sinceISO # run[2].sinceISO
  /\ JustUpserted(1, "L3")
  /\ JustUpserted(2, "L3")
  /\ run[1].pc = "cursor"
  /\ run[2].pc = "cursor"
  /\ remoteVer = 1
  /\ firstCreate["L3"] = Some(OrderLineCreate(RemoteOrders(0)[2],
                                              RemoteLineItem("L3", 0)))

\* the paid orders of the remote created on or after the since-date
OrdersSince(sinceISO) ==
  {i \in 1..Len(RemoteOrders(0)) : RemoteOrders(0)[i].createdAt >= sinceISO}

\* run r writes the cursor in this step
WritesCursor(r) == run[r].pc = "cursor" /\ run'[r].pc = "done"

\* C20: the cursor changes only in the one write that ends a run; after
\* that write IngestCursor holds exactly one row for the run's shop, with
\* the since-date of the run; and the write comes only after the last order
\* page of the run's window has been processed
C20_CursorWrittenAtEnd ==
  [][/\ ingestCursor' # ingestCursor => \E r \in Runs : WritesCursor(r)
     /\ \A r \in Runs :
          WritesCursor(r) =>
            /\ Cardinality({c \in ingestCursor' : c.shop = run[r].shop}) = 1
            /\ \A c \in ingestCursor' :
                 c.shop = run[r].shop => c.sinceISO = run[r].sinceISO
            /\ run[r].ordersProcessed
                 = Cardinality(OrdersSince(run[r].sinceISO))]_vars

\* C22: every OrderLine row of the store has qty >= 0 and netAmount >= 0,
\* whatever quantity and amount the remote served for the line item
\* (negative, missing, not finite); and the row created from a missing or
\* non-finite amount has netAmount 0
C22_NonNegativeFacts ==
  /\ \A row \in orderLine : row.qty >= 0 /\ row.netAmount >= 0
  /\ \A ver \in {0, 1} :
       \A i \in 1..Len(RemoteOrders(ver)) :
         \A j \in 1..Len(RemoteOrders(ver)[i].lines) :
           LET o == RemoteOrders(ver)[i]
               li == RemoteLineItem(o.lines[j], ver)
           IN (li.amount = Null \/ ~li.amount[1].fin) =>
                \A row \in orderLine :
                  row = OrderLineCreate(o, li) => row.netAmount = 0

\* the line items of the orders of the window, order by order: the line
\* items of an order in the order of its pages
LinesSince(sinceISO) ==
  LET os == RemoteOrders(0)
      RECURSIVE LinesFrom(_)
      LinesFrom(i) ==
        IF i > Len(os) THEN <<>>
        ELSE (IF i \in OrdersSince(sinceISO) THEN os[i].lines ELSE <<>>)
               \o LinesFrom(i + 1)
  IN LinesFrom(1)

IsPrefix(s, t) == Len(s) <= Len(t) /\ s = SubSeq(t, 1, Len(s))

\* the pages of run r have all been presented and iterated
PagesOver(r) == run[r].pc \in {"cursor", "done"} /\ ~run[r].clientFailed

\* as long as every external call of run r has presented its page: the line
\* items are visited in the order of the orders and of their pages, none
\* twice; and when the paging is over every order and every line item of
\* the window has been visited and is counted
VisitsInOrder(r) ==
  ~run[r].clientFailed =>
    /\ IsPrefix(run[r].visited, LinesSince(run[r].sinceISO))
    /\ run[r].linesProcessed = Len(run[r].visited)
    /\ PagesOver(r) =>
         /\ run[r].visited = LinesSince(run[r].sinceISO)
         /\ run[r].ordersProcessed
              = Cardinality(OrdersSince(run[r].sinceISO))

\* C21: the remote presenting finitely many order pages and line-item
\* pages, a run that has started ends; it visits the orders of its window
\* once each, and the line items of every order once each, page after page
\* and all pages of an order before the next order; the ordersProcessed and
\* linesProcessed it returns are those counts
C21_RunVisitsAllAndEnds ==
  /\ [](\A r \in Runs : VisitsInOrder(r))
  /\ \A r \in Runs :
       (run[r].pc \notin {"idle", "done", "failed"})
         ~> (run[r].pc \in {"done", "failed"})

\* C21 witness: a run over the whole catalog has returned; it went through
\* two pages of orders and a second page of line items of the first order
C21_Witness ==
  \E r \in Runs :
    /\ run[r].pc = "done"
    /\ ~run[r].clientFailed
    /\ run[r].ordersProcessed = 2
    /\ run[r].linesProcessed = 3
    /\ run[r].visited = <<"L1", "L2", "L3">>

-----------------------------------------------------------------------------
(* Properties of the ranking *)

\* the keys of the product x of the collection that has been ranked
KeysOf(x) ==
  Decorate(req.items[CHOOSE k \in 1..Len(req.items) : req.items[k].id = x],
           req.counts)

\* the place of the product x in the fetched collection
InputPlace(x) == CHOOSE k \in 1..Len(req.items) : req.items[k].id = x

\* s sorts strictly before t, element by element
SeqLess(s, t) ==
  \E k \in 0..Min(Len(s), Len(t)) :
    /\ \A i \in 1..k : s[i] = t[i]
    /\ \/ k = Len(s) /\ k < Len(t)
       \/ k < Len(s) /\ k < Len(t) /\ s[k + 1] < t[k + 1]

\* a title with its upper-case letters turned into lower-case ones
Fold(t) == [i \in 1..Len(t) |-> IF t[i] < 97 THEN t[i] + 32 ELSE t[i]]

\* the alphabetical order of titles: by the letters whatever their case,
\* and, the letters being the same, lower case first
TitleBefore(a, b) ==
  \/ SeqLess(Fold(a), Fold(b))
  \/ Fold(a) = Fold(b) /\ SeqLess(b, a)

\* a and b agree on inStock, sold90 and variantInStock
TieOnCounts(a, b) ==
  /\ a.inStock = b.inStock
  /\ a.sold90 = b.sold90
  /\ a.variantInStock = b.variantInStock

\* at the first key on which a and b differ, a is the one to come first
Precedes(a, b) ==
  \/ a.inStock /\ ~b.inStock
  \/ a.inStock = b.inStock /\ a.sold90 > b.sold90
  \/ /\ a.inStock = b.inStock
     /\ a.sold90 = b.sold90
     /\ a.variantInStock > b.variantInStock
  \/ TieOnCounts(a, b) /\ TitleBefore(a.title, b.title)

\* one collection has been ranked and its products are still at hand
RankedOne == Len(req.ranked) = 1 /\ req.items # <<>>

\* the desired order is a reordering of the collection's product ids
IsReordering(d) ==
  /\ Len(d) = Len(req.items)
  /\ \A k \in 1..Len(req.items) : \E i \in 1..Len(d) : d[i] = req.items[k].id

\* C6: in the desired order, a product precedes every product it beats at
\* the first key on which the two differ (in stock before out of stock, then
\* the larger sold90, then the larger variantInStock, then the smaller
\* title); so every in-stock product precedes every out-of-stock product.
C6_RankOrder ==
  RankedOne =>
    LET d == req.ranked[1].desired IN
    /\ IsReordering(d)
    /\ \A i, j \in 1..Len(d) :
         Precedes(KeysOf(d[i]), KeysOf(d[j])) => i < j
    /\ \A i, j \in 1..Len(d) :
         KeysOf(d[i]).inStock /\ ~KeysOf(d[j]).inStock => i < j

\* C6 witness: an out-of-stock product that sold more than an in-stock one,
\* and came first in the collection, is ranked after it.
C6_Witness ==
  /\ RankedOne
  /\ Len(req.items) = 2
  /\ ~KeysOf(req.items[1].id).inStock
  /\ KeysOf(req.items[2].id).inStock
  /\ KeysOf(req.items[1].id).sold90 > KeysOf(req.items[2].id).sold90
  /\ req.ranked[1].desired = <<req.items[2].id, req.items[1].id>>

\* the quantities of the line items of lines that reference the product x
RECURSIVE SoldIn(_, _)
SoldIn(lines, x) ==
  IF lines = <<>> THEN 0
  ELSE IF Len(lines) = 1
    THEN IF lines[1].product = Some(x) THEN Coalesce(lines[1].quantity, 0) ELSE 0
    ELSE LET half == Len(lines) \div 2
         IN SoldIn(SubSeq(lines, 1, half), x)
              + SoldIn(SubSeq(lines, half + 1, Len(lines)), x)

\* the quantities of all line items of all paid orders of the window that
\* reference the product x
RECURSIVE SoldFrom(_, _)
SoldFrom(orders, x) ==
  IF orders = <<>> THEN 0
  ELSE SoldIn(Head(orders).lines, x) + SoldFrom(Tail(orders), x)

\* C27: for every product of the ranked collection, sold90 is the sum of the
\* quantities of all line items that reference the product in all paid orders
\* of the window, whatever the number of order pages and of line items of an
\* order, and 0 when there are none.
C27_Sold90CountsEveryLine ==
  RankedOne =>
    \A k \in 1..Len(req.items) :
      KeysOf(req.items[k].id).sold90 = SoldFrom(sales, req.items[k].id)

\* the number of products that are to come before x: those that beat x, and
\* those that tie with x on every key and stand before it in the collection
RankOf(x) ==
  Cardinality({k \in 1..Len(req.items) :
                 LET y == req.items[k].id IN
                 \/ Precedes(KeysOf(y), KeysOf(x))
                 \/ /\ KeysOf(y).title = KeysOf(x).title
                    /\ TieOnCounts(KeysOf(y), KeysOf(x))
                    /\ k < InputPlace(x)})

\* C7: the desired order is a function of the fetched products, their
\* variant availability and the sales counts alone (each product stands at
\* the place its keys and its input position give it, whatever the route,
\* topN, limit or dryRun of the request), and products that tie on every key
\* keep their relative input order.
C7_StableRanking ==
  RankedOne =>
    LET d == req.ranked[1].desired IN
    /\ IsReordering(d)
    /\ \A i \in 1..Len(d) : RankOf(d[i]) = i - 1
    /\ \A i, j \in 1..Len(d) :
         (/\ KeysOf(d[i]).title = KeysOf(d[j]).title
          /\ TieOnCounts(KeysOf(d[i]), KeysOf(d[j]))
          /\ InputPlace(d[i]) < InputPlace(d[j])) => i < j

\* C7 witness: two products that tie on every key have been ranked, in their
\* input order, behind a product that stood after them in the collection.
C7_Witness ==
  /\ RankedOne
  /\ Len(req.items) = 3
  /\ KeysOf(req.items[1].id).title = KeysOf(req.items[2].id).title
  /\ TieOnCounts(KeysOf(req.items[1].id), KeysOf(req.items[2].id))
  /\ req.ranked[1].desired
       = <<req.items[3].id, req.items[1].id, req.items[2].id>>

\* C8: products that tie on inStock, sold90 and variantInStock stand in the
\* ascending order of their titles compared code unit by code unit, so that
\* a title starting with an upper-case letter comes before one starting with
\* a lower-case letter.
C8_TitleByCodeUnits ==
  RankedOne =>
    LET d == req.ranked[1].desired IN
    \A i, j \in 1..Len(d) :
      (/\ TieOnCounts(KeysOf(d[i]), KeysOf(d[j]))
       /\ CodeUnitCompare(KeysOf(d[i]).title, KeysOf(d[j]).title) < 0)
        => i < j

-----------------------------------------------------------------------------
(* Properties of the apply protocol *)

IsUpdate(c) == c.op = "collectionUpdate"
IsReorder(c) == c.op = "reorder"
IsPoll(c) == c.op = "job"

\* the places of the external calls that open a sortCollection call
CallStarts == {n \in 1..Len(calls) : IsUpdate(calls[n])}

\* the place of the call that opened the sortCollection call which made the
\* n-th external call
StartOf(n) == CHOOSE m \in CallStarts : m <= n /\ \A k \in CallStarts :
                                                    k <= n => k <= m

\* the external calls of the j-th sortCollection call of the request
CallsOf(j) ==
  LET start == CHOOSE m \in CallStarts :
                 Cardinality({k \in CallStarts : k <= m}) = j
      later == {k \in CallStarts : k > start}
      end == IF later = {} THEN Len(calls)
             ELSE (CHOOSE k \in later : \A l \in later : k <= l) - 1
  IN SubSeq(calls, start, end)

\* the reorder mutations of the j-th sortCollection call, in order
ReordersOf(j) == SelectSeq(CallsOf(j), IsReorder)

\* the moves of a sequence of reorder mutations, one after the other
RECURSIVE AllMoves(_)
AllMoves(rs) ==
  IF rs = <<>> THEN <<>> ELSE Head(rs).moves \o AllMoves(Tail(rs))

\* the jobs that the sortCollection call which made the n-th external call
\* has submitted up to that call and that the platform has not finished
InFlight(n) ==
  {k \in StartOf(n)..n :
     /\ IsReorder(calls[k])
     /\ calls[k].job # Null
     /\ ~jobs[calls[k].job[1]]}

\* C5: within one sortCollection call the chunks go out in ascending
\* position order (the k-th one starts at position 250 * (k - 1)); a chunk
\* that returned a job id is followed by polls of that job only, and the
\* next chunk goes out right after the poll that reported the job done; a
\* chunk that returned no job id is never polled and the next chunk goes out
\* right after it; at most one job of the call is in flight.
C5_OneChunkAtATime ==
  \A n \in 1..Len(calls) :
    LET c == calls[n] IN
    /\ IsReorder(c) =>
         /\ c.moves # <<>>
         /\ ParseInt(c.moves[1].newPosition)
              = ChunkSize * Cardinality({k \in StartOf(n)..(n - 1) :
                                           IsReorder(calls[k])})
         /\ IsReorder(calls[n - 1]) => calls[n - 1].job = Null
         /\ IsPoll(calls[n - 1]) => calls[n - 1].done
    /\ IsPoll(c) =>
         /\ \/ IsReorder(calls[n - 1]) /\ calls[n - 1].job = Some(c.id)
            \/ /\ IsPoll(calls[n - 1])
               /\ calls[n - 1].id = c.id
               /\ ~calls[n - 1].done
         /\ c.done => jobs[c.id]
    /\ ~IsUpdate(c) => Cardinality(InFlight(n)) <= 1

\* C5 witness: a sortCollection call of three chunks: the first one got a
\* job that was polled while pending and then done, the second one got no
\* job id and the third one followed it at once.
C5_Witness ==
  /\ Len(calls) >= 6
  /\ IsUpdate(calls[1])
  /\ IsReorder(calls[2]) /\ calls[2].job # Null
  /\ IsPoll(calls[3]) /\ ~calls[3].done
  /\ IsPoll(calls[4]) /\ calls[4].done
  /\ IsReorder(calls[5]) /\ calls[5].job = Null
  /\ IsReorder(calls[6])
  /\ ParseInt(calls[6].moves[1].newPosition) = 2 * ChunkSize

\* the j-th sortCollection call of the request has returned
Returned(j) ==
  IF req.route = "sort"
    THEN /\ req.pc = "done"
         /\ req.response[1].ok
    ELSE \E k \in 1..Len(req.results) :
           /\ req.results[k].kind = "moved"
           /\ req.results[k].id = req.ranked[j].id

\* C9: a sortCollection call that was handed the desired order d of length
\* L under the cap N >= 0 never submits a move beyond the first min(N, L)
\* ids or with another position than the id's zero-based index in d, nor a
\* mutation of more than 250 moves; once it has returned it has submitted
\* exactly ceil(min(N, L) / 250) mutations whose moves, taken together, are
\* the first min(N, L) ids of d, each once.
C9_ChunkedApply ==
  \A j \in 1..Cardinality(CallStarts) :
    req.ranked[j].cap >= 0 =>
      LET d == req.ranked[j].desired
          M == Min(req.ranked[j].cap, Len(d))
          rs == ReordersOf(j)
          all == AllMoves(rs)
      IN /\ \A k \in 1..Len(rs) : Len(rs[k].moves) \in 1..ChunkSize
         /\ Len(all) <= M
         /\ \A k \in 1..Len(all) :
              /\ all[k].id = d[k]
              /\ ParseInt(all[k].newPosition) = k - 1
              /\ ParseInt(all[k].newPosition) < req.ranked[j].cap
         /\ Returned(j) =>
              /\ Len(all) = M
              /\ Len(rs) = (M + ChunkSize - 1) \div ChunkSize

\* C9 witness: a desired order of 501 ids under the cap 500 has been applied
\* in two mutations of 250 moves.
C9_Witness ==
  /\ Cardinality(CallStarts) = 1
  /\ Returned(1)
  /\ Len(req.ranked[1].desired) = 2 * ChunkSize + 1
  /\ req.ranked[1].cap = DEFAULT_TOP_N
  /\ Len(ReordersOf(1)) = 2
  /\ Len(ReordersOf(1)[2].moves) = ChunkSize

\* d is the first n elements of s, for some n up to max
IsBoundedPrefix(d, s, max) ==
  /\ Len(d) <= max
  /\ Len(d) <= Len(s)
  /\ \A k \in 1..Len(d) : d[k] = s[k]

\* C10: a request with dryRun set makes no collectionUpdate, no reorder
\* mutation and no job poll, starts no job, and leaves the Local Store as it
\* was; its answer (of run-ranking) or its entry for a ranked collection (of
\* run-ranking-all) holds the number of products considered and a prefix of
\* the desired order of at most 25 (run-ranking) or 10 (run-ranking-all)
\* ids.
C10_DryRunHasNoEffect ==
  req.dryRun =>
    /\ calls = <<>>
    /\ jobs = <<>>
    /\ <<product, variant, orderLine, ingestCursor>>
         = <<IngestedStore.product, IngestedStore.variant,
             IngestedStore.orderLine, IngestedStore.ingestCursor>>
    /\ (req.route = "sort" /\ req.pc = "done" /\ req.response[1].ok) =>
         /\ DOMAIN req.response[1]
              = {"ok", "status", "dryRun", "considered", "preview"}
         /\ Len(req.ranked) = 1
         /\ req.response[1].considered = Len(req.ranked[1].desired)
         /\ IsBoundedPrefix(req.response[1].preview, req.ranked[1].desired,
                            PreviewSort)
    /\ req.route = "sortAll" =>
         \A k \in 1..Len(req.results) :
           /\ req.results[k].kind \in {"preview", "skipped", "error"}
           /\ req.results[k].kind = "preview" =>
                \E j \in 1..Len(req.ranked) :
                  /\ req.ranked[j].id = req.results[k].id
                  /\ req.results[k].considered = Len(req.ranked[j].desired)
                  /\ IsBoundedPrefix(req.results[k].preview,
                                     req.ranked[j].desired, PreviewSortAll)

\* C10 witness: a dry run of run-ranking over a collection of 251 products
\* has answered with the count 251 and a preview of 25 ids.
C10_Witness ==
  /\ req.dryRun
  /\ req.route = "sort"
  /\ req.pc = "done"
  /\ req.response[1].ok
  /\ req.response[1].considered = ChunkSize + 1
  /\ Len(req.response[1].preview) = PreviewSort

\* C23: whatever topN the request carries (absent or not a finite number,
\* zero, negative, beyond the desired length), the ids handed to the apply
\* protocol are the first min(max(topN, 0), desired length) ids of the
\* desired order, with 500 for topN when it is absent or not finite
C23_TopNPrefix ==
  req.pc \in {"manual", "reorder", "poll"} =>
    LET topN == Coalesce(req.topN, DEFAULT_TOP_N)
        n == Min(Max(topN, 0), Len(req.desired))
    IN /\ Len(req.toApply) = n
       /\ req.toApply = SubSeq(req.desired, 1, n)

\* the step is the failure of the submission or of a poll of a chunk: the
\* request moves on and the call has not been answered
ChunkFails ==
  /\ req.pc \in {"reorder", "poll"}
  /\ req' # req
  /\ calls' = calls

\* the collection has an entry in the results of run-ranking-all
Recorded(id) == \E k \in 1..Len(req.results) : req.results[k].id = id

\* C24: the calls the platform has received stay as they are (no move is
\* taken back), and no mutation is ever issued for a collection whose
\* request has ended or which has its entry in the results; when the
\* submission or a poll of a chunk fails, run-ranking answers with the
\* failure, and run-ranking-all records the collection with an error and
\* goes on with the next collection of the target
C24_NoRollbackNoResume ==
  [][/\ IsPrefix(calls, calls')
     /\ \A n \in (Len(calls) + 1)..Len(calls') :
          ~IsPoll(calls'[n]) =>
            /\ req.pc \in {"manual", "reorder"}
            /\ calls'[n].id = CurrentId(req)
            /\ ~Recorded(CurrentId(req))
     /\ ChunkFails =>
          IF req.route = "sort"
            THEN req'.pc = "done" /\ ~req'.response[1].ok
            ELSE /\ req'.results
                      = Append(req.results,
                               [id |-> CurrentId(req), kind |-> "error"])
                 /\ IF req.ci < Len(req.target)
                      THEN req'.pc = "products" /\ req'.ci = req.ci + 1
                      ELSE /\ req'.pc = "done"
                           /\ req'.response[1].processed
                                = Len(req'.results)]_vars

\* C24 witness: run-ranking-all has recorded an error for a collection
\* whose first chunk of 250 moves had been submitted and whose second chunk
\* never was, and has gone on to the next collection
C24_Witness ==
  /\ req.route = "sortAll"
  /\ \E k \in 1..Len(req.results), n \in 1..Len(calls) :
       /\ req.results[k].kind = "error"
       /\ IsReorder(calls[n])
       /\ calls[n].id = req.results[k].id
       /\ Len(calls[n].moves) = ChunkSize
       /\ \A m \in 1..Len(calls) :
            (IsReorder(calls[m]) /\ calls[m].id = calls[n].id) => m = n
       /\ \E m \in (n + 1)..Len(calls) :
            IsReorder(calls[m]) /\ calls[m].id # calls[n].id

\* the request is inside sortCollection
InSortCollection == req.pc \in {"manual", "reorder", "poll"}

\* a poll of the job of the chunk at i is answered: only the answer `done`
\* ends the loop, and then the loop over the chunks goes on after the chunk;
\* any other answer is followed by the next poll of the same job, whatever
\* the number of polls so far, with no chunk submitted
PollLoop ==
  (req.pc = "poll" /\ calls' # calls) =>
    LET k == req.jobId[1]
        c == calls'[Len(calls')]
    IN /\ calls' = Append(calls, c)
       /\ IsPoll(c)
       /\ c.id = k
       /\ c.done = jobs[k]
       /\ IF c.done
            THEN req' = ApplyLoop([req EXCEPT !.i = @ + ChunkSize,
                                              !.jobId = Null])
            ELSE /\ req'.pc = "poll"
                 /\ req'.jobId = req.jobId
                 /\ req'.i = req.i
                 /\ req'.response = req.response
                 /\ req'.results = req.results

C26_RejectionIsReported ==
  (/\ req.route = "sort"
   /\ req.pc = "done"
   /\ \E n \in 1..Len(calls) : IsReorder(calls[n]) /\ calls[n].job = Null)
    => ~req.response[1].ok

\* the rule list that saveCollectionRules has stored for the collection
StoredRules(rules) == metafields["sort_rules"] = Some(Stringify(rules))

\* C28: whatever rule list saveCollectionRules has stored for the collection,
\* the desired order of run-ranking and of run-ranking-all is the one the
\* fixed keys give to the fetched products, their variant availability and
\* the sales counts: each product stands behind the products that beat it on
\* the fixed keys and behind no other.
C28_StoredRulesIgnored ==
  \A rules \in RuleLists :
    (StoredRules(rules) /\ RankedOne) =>
      LET d == req.ranked[1].desired IN
      /\ IsReordering(d)
      /\ \A i \in 1..Len(d) : RankOf(d[i]) = i - 1

\* C28 witness: the list ["alpha"] is stored for the collection, and both
\* routes have ranked it by stock, sales and variants and not by title.
C28_Witness ==
  /\ StoredRules(<<"alpha">>)
  /\ RankedOne
  /\ req.route = "sortAll"
  /\ Len(sales) = 1
  /\ req.ranked[1].desired = <<2, 1, 3>>

-----------------------------------------------------------------------------
(* Properties of run-ranking-all *)

\* the entry that the collection c yields when nothing throws
EntryOf(c) ==
  IF c.items = <<>> THEN [id |-> c.id, kind |-> "skipped"]
  ELSE LET wanted == {c.items[k].id : k \in 1..Len(c.items)}
           d == Desired(c.items, CountEdges(<<>>, sales, wanted))
       IN IF req.dryRun
            THEN [id |-> c.id, kind |-> "preview", considered |-> Len(d),
                  preview |-> SliceTo(d, PreviewSortAll)]
            ELSE [id |-> c.id, kind |-> "moved",
                  moved |-> Len(SliceTo(d, TopNAll(req.topN))),
                  considered |-> Len(d)]

-----------------------------------------------------------------------------
(* Properties of bundle creation *)

\* what the platform reports as available for a variant, across locations;
\* 0 for a variant it does not report
Available(id) == IF id \in DOMAIN inventory THEN Sum(inventory[id]) ELSE 0

\* floor(available / max(1, requiredQty)), the quantity being c.qty.val / 2
ComponentCapacity(c) == (2 * Available(c.variantId)) \div Max(2, c.qty.val)

\* the least element of a non-empty set of integers
Least(S) == CHOOSE m \in S : \A x \in S : m <= x

\* C12: a capacity computed from an answer of the platform, for components
\* whose quantities are numbers, is 0 for no component and otherwise the
\* least floor(available / max(1, requiredQty)) over the components, a
\* variant that the answer does not hold counting as 0 available.
C12_CapacityIsMinOverComponents ==
  (/\ api.op = "bundle"
   /\ api.capacity # Null
   /\ ~api.capacityFrom[1].rejected
   /\ \A i \in 1..Len(api.components) : api.components[i].qty.fin) =>
    api.capacity[1] =
      IF api.components = <<>> THEN 0
      ELSE Least({ComponentCapacity(api.components[i]) :
                    i \in 1..Len(api.components)})

\* the entries of the log that are inventory queries of revisions E and G
IsPrimary(c) == c.op = "Inv"
IsSecondary(c) == c.op = "InvFallback"

\* C13: in the revisions that have a secondary inventory query (E and G),
\* the secondary query follows a primary one that was rejected with an
\* error list; a request whose primary query was rejected goes on to the
\* secondary one; the request is answered as failed when the secondary
\* query is rejected too, and only then; no capacity is computed from a
\* rejected answer.
C13_FallbackBeforeFailure ==
  (api.op = "bundle" /\ api.version \in {"E", "G"}) =>
    LET n == Len(xcalls) IN
    /\ \A k \in 1..n :
         IsSecondary(xcalls[k]) =>
           k > 1 /\ IsPrimary(xcalls[k - 1]) /\ xcalls[k - 1].outcome = "errors"
    /\ (n >= 1 /\ IsPrimary(xcalls[n]) /\ xcalls[n].outcome = "errors") =>
         api.pc \in {"inv2", "fallback"}
    /\ (n >= 1 /\ IsSecondary(xcalls[n]) /\ xcalls[n].outcome = "errors") =>
         api.pc = "done" /\ ~api.response[1].ok
    /\ (/\ api.pc = "done"
        /\ ~api.response[1].ok
        /\ n >= 1
        /\ \A k \in 1..n : xcalls[k].outcome # "throw"
        /\ xcalls[n].op \in {"Inv", "InvFallback"}) =>
         IsSecondary(xcalls[n]) /\ xcalls[n].outcome = "errors"
    /\ api.capacity # Null => ~api.capacityFrom[1].rejected

\* C14: a bundle request with a missing title, no component, a component
\* quantity that is not a positive finite number or a malformed variant id
\* makes no call to the external catalog client, and, unless authentication
\* fails first, is answered with status 400.
C14_InvalidRequestRejected ==
  (/\ api.op = "bundle"
   /\ \/ api.title = ""
      \/ api.components = <<>>
      \/ BadComponents(api.components) # {}) =>
    /\ xcalls = <<>>
    /\ (api.pc = "done" /\ ~api.authFailed) => api.response[1].status = 400

\* C30: when bundle creation has succeeded and a bundle_capacity metafield
\* is saved, the capacity of the answer is a non-negative integer and the
\* metafield holds its decimal digits, whatever the quantities and the
\* availabilities, oversold ones included.
C30_ReturnedIsPersisted ==
  (/\ api.op = "bundle"
   /\ api.pc = "done"
   /\ api.response[1].ok
   /\ metafields["bundle_capacity"] # Null) =>
    /\ api.response[1].capacity # Null
    /\ api.response[1].capacity[1] >= 0
    /\ metafields["bundle_capacity"][1] = StringOf(api.response[1].capacity[1])

-----------------------------------------------------------------------------
(* Properties of the authentication of the API routes *)

\* C15: whenever the admin authentication fails on an API operation, the
\* caller is answered with status 401 and a body holding a reauthUrl, never
\* with a generic error, an error body under status 200 or a success payload
C15_AuthFailureIs401 ==
  (api.pc = "done" /\ api.authFailed) =>
    /\ api.response[1].status = 401
    /\ "reauthUrl" \in DOMAIN api.response[1]

\* C29: a request to the KPIs, aging-stock or size-curve loader whose admin
\* authentication failed ends at once, whichever definition of
\* ensureAdminOrJsonReauth is in place: no query of the Local Store is
\* pending or has been answered for it, and its answer carries no rollup.
C29_NoRollupWithoutAuth ==
  (api.op \in {"kpis", "aging", "sizeCurve"} /\ api.authFailed) =>
    /\ api.pc = "done"
    /\ ~api.response[1].ok

-----------------------------------------------------------------------------
(* Properties of the strategy customization *)

\* the list held under "rules" in the stored value, if it holds one
StoredList(raw) ==
  IF raw = Null \/ raw[1].json = Null THEN Null
  ELSE IF raw[1].json[1].kind # "object" THEN Null
  ELSE IF raw[1].json[1].rules = Null THEN Null
  ELSE IF raw[1].json[1].rules[1].kind # "array" THEN Null
  ELSE Some(raw[1].json[1].rules[1].items)

KnownRules == {"in_stock", "sales_90d", "variants_in_stock", "alpha",
               "oos_last"}

RECURSIVE KnownOf(_)
\* the known identifiers of a list, in the order of the list
KnownOf(s) ==
  IF s = <<>> THEN <<>>
  ELSE IF s[1] \in KnownRules THEN <<s[1]>> \o KnownOf(Tail(s))
  ELSE KnownOf(Tail(s))

\* C18: loadCollectionRules returns the known identifiers of the stored
\* list in their stored order, and the default five-rule order when the
\* stored value is missing, unparsable, not a list, an empty list or a list
\* left empty by the filtering
C18_RulesOrDefault ==
  (api.op = "strategy" /\ api.pc = "done") =>
    LET l == StoredList(api.stored)
        known == IF l = Null THEN <<>> ELSE KnownOf(l[1])
    IN api.response[1].rules =
         IF known = <<>>
           THEN <<"in_stock", "sales_90d", "variants_in_stock", "alpha",
                  "oos_last">>
           ELSE known

-----------------------------------------------------------------------------
(* Properties of the analytics *)

\* the snapshots of a variant that carry its greatest snapshotDate
LatestOf(vid) ==
  {s \in inventorySnapshot :
     /\ s.variantId = vid
     /\ \A t \in inventorySnapshot :
          t.variantId = vid => t.snapshotDate <= s.snapshotDate}

\* the units of a variant sold in the last `days` days
UnitsSold(vid, days) ==
  SumQty({l \in orderLine :
            l.variantId = Some(vid) /\ l.createdAt >= clock - days})

\* positive on-hand and fewer than one unit a week over days / 7 weeks
AtRisk(vid, on, days) == on > 0 /\ 7 * UnitsSold(vid, days) < days

\* a may stand before b: its weeks of supply (on-hand over units, infinite
\* without units) are greater, or equal with at least b's on-hand
MayPrecede(a, b) ==
  IF a.units = 0 /\ b.units = 0 THEN a.onHand >= b.onHand
  ELSE IF a.units = 0 THEN TRUE
  ELSE IF b.units = 0 THEN FALSE
  ELSE \/ a.onHand * b.units > b.onHand * a.units
       \/ /\ a.onHand * b.units = b.onHand * a.units
          /\ a.onHand >= b.onHand

\* C16: the KPI risk list holds the variants whose latest on-hand is
\* positive and whose weekly rate is below 1, ordered by weeks of supply
\* descending with infinite first, ties by larger on-hand first, and cut to
\* the first 25
C16_RiskList ==
  (api.op = "kpis" /\ api.pc = "done" /\ api.response[1].status = 200) =>
    LET risks == api.response[1].risks
        n == Len(risks)
        listed == {risks[i].variantId : i \in 1..n}
        others == {s.variantId : s \in inventorySnapshot} \ listed
    IN /\ n <= 25
       /\ \A i \in 1..n :
            /\ \E s \in LatestOf(risks[i].variantId) :
                 s.onHand = risks[i].onHand
            /\ risks[i].units = UnitsSold(risks[i].variantId, api.days)
            /\ AtRisk(risks[i].variantId, risks[i].onHand, api.days)
       /\ \A i, j \in 1..n :
            i < j => /\ risks[i].variantId # risks[j].variantId
                     /\ MayPrecede(risks[i], risks[j])
       /\ \A v \in others :
            (\A s \in LatestOf(v) : AtRisk(v, s.onHand, api.days)) =>
              /\ n = 25
              /\ \E s \in LatestOf(v) :
                   MayPrecede(risks[n],
                              [onHand |-> s.onHand,
                               units |-> UnitsSold(v, api.days)])

\* more than 25 variants are at risk, some without sales, and two of the
\* listed ones tie on weeks of supply with different on-hand
C16_Witness ==
  /\ api.op = "kpis"
  /\ api.pc = "done"
  /\ api.response[1].status = 200
  /\ LET risks == api.response[1].risks IN
     /\ Len(risks) = 25
     /\ Cardinality({s.variantId : s \in inventorySnapshot}) > 25
     /\ risks[1].units = 0
     /\ \E i, j \in 1..Len(risks) :
          /\ i < j
          /\ risks[i].units > 0
          /\ risks[i].onHand * risks[j].units
               = risks[j].onHand * risks[i].units
          /\ risks[i].onHand > risks[j].onHand

\* the age in days of the product of a variant, 0 when the creation date is
\* not known
AgeOf(productId) ==
  IF \E p \in product : p.id = productId /\ p.createdAt # Null
    THEN clock - (CHOOSE p \in product : p.id = productId).createdAt[1]
    ELSE 0

\* the on-hand of the rows whose product's age lies in lo..hi
OnHandAged(rows, lo, hi) ==
  SumOnHand(SelectSeq(rows, LAMBDA r :
    AgeOf(r.productId) >= lo /\ AgeOf(r.productId) <= hi))

-----------------------------------------------------------------------------
(* Properties of the Local Store *)

LocalStore == <<product, variant, orderLine, ingestCursor, inventorySnapshot>>

\* C19: the overview, size-curve, KPI and aging-stock queries leave every
\* table of the Local Store as it is, and Product, Variant, OrderLine and
\* IngestCursor change only in a step of an orders-ingestion request, never
\* in a step of a ranking, strategy, bundle or aggregation request
C19_OnlyIngestionWrites ==
  [][LocalStore' # LocalStore =>
       /\ \E r \in Runs : run'[r] # run[r]
       /\ req' = req
       /\ api' = api
       /\ inventorySnapshot' = inventorySnapshot]_vars

\* an aging-stock query has been answered from the snapshots and the
\* Product rows, which are still there
C19_Witness ==
  /\ api.op = "aging"
  /\ api.pc = "done"
  /\ api.response[1].status = 200
  /\ api.latest # <<>>
  /\ \E p \in product : p.id = api.latest[1].productId
  /\ orderLine # {}

=============================================================================
